---- MODULE Spec2Model ----
(***************************************************************************)
(* Export engine of the chat-history archiver: the paginated client's      *)
(* message stream, the batched export pipeline (ChannelExporter), the      *)
(* partitioned sink (MessageExporter) with its format writers, and the     *)
(* client's request loop (DiscordClient.getResponse).                      *)
(***************************************************************************)
EXTENDS Integers, Sequences, FiniteSets, TLC

\* ---------------------------------------------------------------------------
\* Program constants
\* ---------------------------------------------------------------------------
BATCH_SIZE == 50
PARALLEL_LIMIT == 10
PAGINATION_LIMIT == 100
MAX_RETRIES == 5
INITIAL_RETRY_DELAY_MS == 1000
MAX_RETRY_DELAY_MS == 60000
AGENT_MAX_RETRIES == 4
GROUP_WINDOW_MS == 420000

\* ---------------------------------------------------------------------------
\* Bounds of the model
\* ---------------------------------------------------------------------------
\* Largest channel of the exhaustive small-input family.
MaxSmall == 4
\* Number of distinct users of the large-input family (above PARALLEL_LIMIT).
MaxUsers == 11
\* Largest message-count partition limit.
MaxCount == 3
\* Largest byte-size partition limit.
MaxSize == 6
\* Message ids that share one millisecond of timestamp.
IdsPerMs == 2
\* Id of the exported channel; message ids are the ids following it.
ChannelId == 2
\* Concurrent callers of one client, and the requests each of them makes.
\* Messages handed to one HTML writer.
MaxGroupLen == 2
\* Characters of a filter expression given to the tokenizer.
MaxChars == 3
\* Lexemes of a filter expression, and of its parenthesised part.
MaxLexemes == 4
MaxInner == 3
\* Characters of a snowflake string.
MaxIdChars == 4
\* Embeds of a message.
MaxEmbeds == 3
\* Characters of a markdown source.
MaxSource == 4
MaxCallers == 2
MaxRequests == 2

\* ---------------------------------------------------------------------------
\* Optional values (null | value)
\* ---------------------------------------------------------------------------
None == <<>>

Some(x) == <<x>>

IsSome(o) == o # <<>>

Val(o) == o[1]

Min(a, b) == IF a <= b THEN a ELSE b

Pow2(k) == 2 ^ k

RECURSIVE SeqSum(_)
SeqSum(s) == IF s = <<>> THEN 0 ELSE Head(s) + SeqSum(Tail(s))

ReverseSeq(s) == [i \in 1..Len(s) |-> s[Len(s) + 1 - i]]

\* ---------------------------------------------------------------------------
\* Domain values: ids, timestamps, messages, channel
\* ---------------------------------------------------------------------------
\* Snowflake.toDate: the timestamp is the high part of the id.
Timestamp(id) == id \div IdsPerMs

\* Message.parse: a message of the exported channel, keyed by its id.  Of the
\* guild's users, 1..nUsers write and are mentioned in message contents; the
\* next nFields users are mentioned, one per field, in the fields of the embed
\* the messages from id embedFrom on carry (such mentions are not part of
\* mentionedUsers); the fields mention fieldUsers different users in turn.
\* The user reactor, if any, reacted to every message.
AuthorOf(id, nUsers) == ((id \div 2) % nUsers) + 1

MentionOf(id, nUsers) == ((id + 1) % nUsers) + 1

Msg(id, e) ==
    [id |-> id,
     author |-> AuthorOf(id, e.nUsers),
     fullName |-> AuthorOf(id, e.nUsers),
     displayName |-> AuthorOf(id, e.nUsers),
     mentionedUsers |-> <<MentionOf(id, e.nUsers)>>,
     fieldMentions |-> IF id >= e.embedFrom
                       THEN [k \in 1..e.nFields |->
                               e.nUsers + ((k - 1) % e.fieldUsers) + 1]
                       ELSE <<>>,
     reactionUsers |-> IF e.reactor = 0 THEN <<>> ELSE <<e.reactor>>,
     timestamp |-> Timestamp(id),
     isReplyLike |-> FALSE,
     isSystemNotification |-> FALSE]

\* Message.getReferencedUsers leaving out the mentioned users.
GetReferencedUsersAuthorOnly(m) == <<m.author>>

\* Message.getReferencedUsers: author, then the mentioned users.
GetReferencedUsers(m) == <<m.author>> \o m.mentionedUsers

\* Channel.isEmpty
ChannelIsEmpty(ch) == ch.lastMessageId = None

\* Channel.mayHaveMessagesAfter with <= in place of <.
MayHaveMessagesAfterInclusive(ch, messageId) ==
    ~ChannelIsEmpty(ch) /\ messageId <= Val(ch.lastMessageId)

\* Channel.mayHaveMessagesAfter
MayHaveMessagesAfter(ch, messageId) ==
    ~ChannelIsEmpty(ch) /\ messageId < Val(ch.lastMessageId)

\* Channel.mayHaveMessagesBefore
MayHaveMessagesBefore(ch, messageId) ==
    ~ChannelIsEmpty(ch) /\ messageId > ch.id

\* MessageFilter.isMatch for the null filter and the from: filter.
FilterIsMatch(filter, m) ==
    CASE filter.kind = "null" -> TRUE
      [] filter.kind = "from" -> m.author = filter.value

\* ---------------------------------------------------------------------------
\* Upstream API (environment): the messages endpoint of the channel
\* ---------------------------------------------------------------------------
\* Ids of the messages the channel holds, nMsgs of them.
ChannelMessageIds(nMsgs) == (ChannelId + 1)..(ChannelId + nMsgs)

RECURSIVE SetToAscSeq(_)
SetToAscSeq(S) ==
    IF S = {} THEN <<>>
    ELSE LET lo == CHOOSE x \in S : \A y \in S : x <= y
         IN <<lo>> \o SetToAscSeq(S \ {lo})

\* GET channels/{id}/messages?limit=L&after=A : the L oldest messages after
\* A, returned newest first.
UpstreamPageAfter(nMsgs, afterId, limit) ==
    LET asc == SetToAscSeq({i \in ChannelMessageIds(nMsgs) : i > afterId})
    IN ReverseSeq(SubSeq(asc, 1, Min(limit, Len(asc))))

\* GET channels/{id}/messages?limit=1[&before=B] : the newest message
\* (before B), or nothing.
UpstreamLastBefore(nMsgs, before) ==
    LET S == {i \in ChannelMessageIds(nMsgs) : IsSome(before) => i < Val(before)}
    IN IF S = {} THEN None
       ELSE Some(CHOOSE x \in S : \A y \in S : y <= x)

\* GET guilds/{g}/members/{u} answers 404 for users that left the guild.
IsGuildMember(u) == u % 2 = 1

\* GET users/{u} answers 404 for deleted users.
UserExists(u) == u % 4 # 0

\* ---------------------------------------------------------------------------
\* Partition limits
\* ---------------------------------------------------------------------------
\* MessageCountPartitionLimit.isReached with > in place of >=.
MessageCountIsReachedStrict(limit, messagesWritten) == messagesWritten > limit

\* MessageCountPartitionLimit.isReached
MessageCountIsReached(limit, messagesWritten) == messagesWritten >= limit

\* FileSizePartitionLimit.isReached
FileSizeIsReached(limit, bytesWritten) == bytesWritten >= limit

\* PartitionLimit.isReached, dispatched on the kind of limit.
IsReached(limit, messagesWritten, bytesWritten) ==
    CASE limit.kind = "null" -> FALSE
      [] limit.kind = "count" -> MessageCountIsReached(limit.n, messagesWritten)
      [] limit.kind = "size" -> FileSizeIsReached(limit.n, bytesWritten)

\* ---------------------------------------------------------------------------
\* Output paths
\* ---------------------------------------------------------------------------
\* getExportFormatFileExtension
FileExtension(format) ==
    CASE format = "PlainText" -> ".txt"
      [] format = "Html" -> ".html"
      [] format = "Csv" -> ".csv"
      [] format = "Json" -> ".json"

\* request.outputFilePath, as <<directory, base name, extension>>.
OutputFilePath(format) == <<"out/", "export", FileExtension(format)>>

\* getPartitionFilePath numbering the parts from the raw index.
GetPartitionFilePathZeroBased(baseFilePath, partitionIndex) ==
    IF partitionIndex <= 0 THEN baseFilePath
    ELSE <<baseFilePath[1], baseFilePath[2],
           " [part ", ToString(partitionIndex), "]", baseFilePath[3]>>

\* MessageExporter.getPartitionFilePath
GetPartitionFilePath(baseFilePath, partitionIndex) ==
    IF partitionIndex <= 0 THEN baseFilePath
    ELSE <<baseFilePath[1], baseFilePath[2],
           " [part ", ToString(partitionIndex + 1), "]", baseFilePath[3]>>

\* ---------------------------------------------------------------------------
\* Format writers.  A writer is [file, messagesWritten, bytesWritten, buffer];
\* buffer is the HTML writer's messageGroup or the JSON writer's jsonMessages.
\* A file is [path, calls, bytes, closed, closes]: calls lists the writer
\* methods invoked for it, bytes what reached its stream, closes counts the
\* calls of the writer's dispose.
\* ---------------------------------------------------------------------------
\* Bytes of the header a writer emits in writePreamble.
PreambleBytes(format) ==
    CASE format = "PlainText" -> 2
      [] format = "Html" -> 2
      [] format = "Csv" -> 1
      [] format = "Json" -> 0

\* Bytes of the preamble data the JSON writer keeps in memory.
JsonPreambleDataBytes == 1

\* Bytes of the representation of one message.
MessageBytes(m) == 2

\* Bytes of the avatar and author header of one HTML message group.
GroupHeaderBytes == 1

\* Bytes of the footer a writer emits in writePostamble (JSON: the closing
\* part of the document, after the messages).
PostambleBytes(format) ==
    CASE format = "PlainText" -> 1
      [] format = "Html" -> 1
      [] format = "Csv" -> 0
      [] format = "Json" -> 1

\* canJoinGroup with the rule "same author, same display name, within the
\* window, neither reply-like, both or neither system notifications".
CanJoinGroupSymmetric(messageGroup, message) ==
    IF messageGroup = <<>> THEN TRUE
    ELSE LET lastMessage == messageGroup[Len(messageGroup)]
         IN /\ message.author = lastMessage.author
            /\ message.displayName = lastMessage.displayName
            /\ message.timestamp - lastMessage.timestamp <= GROUP_WINDOW_MS
            /\ ~message.isReplyLike /\ ~lastMessage.isReplyLike
            /\ message.isSystemNotification = lastMessage.isSystemNotification

\* HtmlMessageWriter.canJoinGroup
CanJoinGroup(messageGroup, message) ==
    IF messageGroup = <<>> THEN TRUE
    ELSE LET lastMessage == messageGroup[Len(messageGroup)]
             timeDiff == IF message.timestamp >= lastMessage.timestamp
                         THEN message.timestamp - lastMessage.timestamp
                         ELSE lastMessage.timestamp - message.timestamp
         IN IF message.isReplyLike THEN FALSE
            ELSE IF message.isSystemNotification
                 THEN lastMessage.isSystemNotification
                 ELSE /\ ~lastMessage.isSystemNotification
                      /\ ~(timeDiff > GROUP_WINDOW_MS)
                      /\ message.author = lastMessage.author
                      /\ message.fullName = lastMessage.fullName

\* MessageWriter.write: the stream and the byte counter advance together.
Emit(st, n) ==
    LET w == Val(st.writer)
    IN [st EXCEPT !.writer = Some([w EXCEPT !.bytesWritten = @ + n]),
                  !.files[w.file].bytes = @ + n]

\* Record that a writer method was invoked for the writer's file.
Call(st, op, id) ==
    [st EXCEPT !.files[Val(st.writer).file].calls = Append(@, <<op, id>>)]

\* HtmlMessageWriter.writeMessageGroup
WriteMessageGroup(st) ==
    LET w == Val(st.writer)
    IN IF w.buffer = <<>> THEN st
       ELSE LET flushed == Emit(st, GroupHeaderBytes
                                    + SeqSum([i \in 1..Len(w.buffer) |-> MessageBytes(w.buffer[i])]))
            IN [flushed EXCEPT !.writer = Some([Val(flushed.writer) EXCEPT !.buffer = <<>>])]

\* writePreamble of the four writers.
WritePreamble(format, st) ==
    Emit(Call(st, "preamble", 0), PreambleBytes(format))

\* The part of writeMessage every writer shares: MessageWriter.writeMessage.
CountMessage(st) ==
    [st EXCEPT !.writer = Some([Val(st.writer) EXCEPT !.messagesWritten = @ + 1])]

Buffer(st, m) ==
    [st EXCEPT !.writer = Some([Val(st.writer) EXCEPT !.buffer = Append(@, m)])]

\* writeMessage of the four writers up to its first request: the call of
\* super.writeMessage.  handed lists the ids of the messages passed to
\* writeMessage, in the order of the calls.
WriteMessageBegin(st, m) ==
    [Call(CountMessage(st), "message", m.id) EXCEPT !.handed = Append(@, m.id)]

\* writeMessage of the four writers from there on: the message is rendered
\* and written (PlainText, CSV) or kept (JSON, HTML).
WriteMessageEnd(format, st, m) ==
    CASE format \in {"PlainText", "Csv"} -> Emit(st, MessageBytes(m))
      [] format = "Json" -> Buffer(st, m)
      [] format = "Html" ->
           IF ~CanJoinGroup(Val(st.writer).buffer, m)
           THEN Buffer(WriteMessageGroup(st), m)
           ELSE Buffer(st, m)

\* writeMessage of the four writers.
WriteMessage(format, st, m) ==
    WriteMessageEnd(format, WriteMessageBegin(st, m), m)

\* writeMessage throwing after super.writeMessage (a member, user or
\* reaction request made while rendering the message fails).
WriteMessageThrows(st, m) == Call(st, "failed", m.id)

\* writePostamble of the four writers.
WritePostamble(format, st) ==
    LET called == Call(st, "postamble", 0)
        w == Val(st.writer)
    IN CASE format \in {"PlainText", "Csv"} -> Emit(called, PostambleBytes(format))
         [] format = "Json" ->
              Emit(called, JsonPreambleDataBytes
                           + SeqSum([i \in 1..Len(w.buffer) |-> MessageBytes(w.buffer[i])])
                           + PostambleBytes(format))
         [] format = "Html" -> Emit(WriteMessageGroup(called), PostambleBytes(format))

\* ---------------------------------------------------------------------------
\* MessageExporter (the partitioned sink).  Its operations transform
\* [partitionIndex, writer, messagesExported, files, ops, handed]; ops lists the
\* steps the sink performed during the current operation.
\* ---------------------------------------------------------------------------
Op(st, name, arg) == [st EXCEPT !.ops = Append(@, <<name, arg>>)]

\* MessageExporter.uninitializeWriter
UninitializeWriter(format, st) ==
    IF st.writer = None THEN st
    ELSE LET f == Val(st.writer).file
             post == Op(WritePostamble(format, st), "postamble", f)
             closed == Op([post EXCEPT !.files[f].closed = TRUE,
                                       !.files[f].closes = @ + 1], "close", f)
         IN [closed EXCEPT !.writer = None]

\* MessageExporter.uninitializeWriter without its finally block, when
\* writePostamble throws: the writer stays open.
UninitializeWriterNoFinally(st) ==
    Op(Call(st, "postamble", 0), "postamble", Val(st.writer).file)

\* MessageExporter.uninitializeWriter when writePostamble throws before it
\* has written anything (the HTML writer renders its last message group
\* first and a request of the rendering fails): the finally block disposes
\* the writer all the same.
UninitializeWriterThrows(st) ==
    LET f == Val(st.writer).file
        post == Op(Call(st, "postamble", 0), "postamble", f)
        closed == Op([post EXCEPT !.files[f].closed = TRUE,
                                  !.files[f].closes = @ + 1], "close", f)
    IN [closed EXCEPT !.writer = None]

\* MessageExporter.initializeWriter
InitializeWriter(rq, st) ==
    LET reached == /\ st.writer # None
                   /\ IsReached(rq.partitionLimit,
                                Val(st.writer).messagesWritten,
                                Val(st.writer).bytesWritten)
        s1 == IF reached
              THEN LET u == UninitializeWriter(rq.format, st)
                   IN Op([u EXCEPT !.partitionIndex = @ + 1],
                         "increment", u.partitionIndex + 1)
              ELSE st
    IN IF s1.writer # None THEN s1
       ELSE LET filePath == GetPartitionFilePath(OutputFilePath(rq.format),
                                                 s1.partitionIndex)
                f == Len(s1.files) + 1
                opened == Op([s1 EXCEPT
                                !.files = Append(@, [path |-> filePath,
                                                     calls |-> <<>>,
                                                     bytes |-> 0,
                                                     closed |-> FALSE,
                                                     closes |-> 0]),
                                !.writer = Some([file |-> f,
                                                 messagesWritten |-> 0,
                                                 bytesWritten |-> 0,
                                                 buffer |-> <<>>])],
                             "open", f)
            IN Op(WritePreamble(rq.format, opened), "preamble", f)

\* MessageExporter.exportMessage up to the first request of writeMessage.
ExportMessageBegin(rq, st, m) ==
    LET s1 == InitializeWriter(rq, [st EXCEPT !.ops = <<>>])
    IN Op(WriteMessageBegin(s1, m), "message", Val(s1.writer).file)

\* MessageExporter.exportMessage from there on.
ExportMessageEnd(rq, st, m) ==
    [WriteMessageEnd(rq.format, st, m) EXCEPT !.messagesExported = @ + 1]

\* MessageExporter.exportMessage
ExportMessage(rq, st, m) == ExportMessageEnd(rq, ExportMessageBegin(rq, st, m), m)

\* MessageExporter.exportMessage when writer.writeMessage throws.
ExportMessageThrows(st, m) ==
    Op(WriteMessageThrows(st, m), "failed", Val(st.writer).file)

\* The test of MessageExporter.dispose, never forcing the empty file.
NoMessagesExportedNever(messagesExported) == FALSE

\* The test of MessageExporter.dispose: no message was exported.
NoMessagesExported(messagesExported) == messagesExported <= 0

\* MessageExporter.dispose
Dispose(rq, st) ==
    LET s0 == [st EXCEPT !.ops = <<>>]
        s1 == IF NoMessagesExported(s0.messagesExported)
              THEN InitializeWriter(rq, s0)
              ELSE s0
    IN UninitializeWriter(rq.format, s1)

\* ---------------------------------------------------------------------------
\* ExportContext: roles and colours derived from the member cache
\* ---------------------------------------------------------------------------
\* rolesById after populateChannelsAndRoles: the guild's roles.  Role 2 is
\* the highest and has no colour.
RolesById ==
    [r \in 1..3 |-> [position |-> <<1, 3, 2>>[r],
                     color |-> <<Some(1), None, Some(3)>>[r]]]

\* member.roleIds: a guild member holds the three roles and one that was
\* deleted since; Member.createFallback gives no roles.
RoleIds(member) == IF member = "member" THEN <<1, 2, 4, 3>> ELSE <<>>

\* tryGetRole(roleId) is not null.
RoleIsCached(roleId) == roleId \in DOMAIN RolesById

HasColor(roleId) == RolesById[roleId].color # None

\* roles.sort((a, b) => b.position - a.position), a stable sort.
RECURSIVE SortByPosition(_)
SortByPosition(roles) ==
    IF roles = <<>> THEN <<>>
    ELSE LET r == roles[Len(roles)]
             s == SortByPosition(SubSeq(roles, 1, Len(roles) - 1))
             k == Cardinality({i \in 1..Len(s) :
                     RolesById[s[i]].position >= RolesById[r].position})
         IN SubSeq(s, 1, k) \o <<r>> \o SubSeq(s, k + 1, Len(s))

\* What getUserRoles computes from the member cache: nothing for a user
\* that is not cached or cached as null.
RolesOf(members, u) ==
    IF members[u] \in {"absent", "null"} THEN <<>>
    ELSE SortByPosition(SelectSeq(RoleIds(members[u]), RoleIsCached))

\* What tryGetUserColor computes from a user's roles.
ColorOf(roles) ==
    LET colored == SelectSeq(roles, HasColor)
    IN IF colored = <<>> THEN None ELSE RolesById[colored[1]].color

\* getUserRoles(u): the context after the call; the value returned is then
\* userRolesCache[u].
GetUserRoles(ctx, members, u) ==
    IF ctx.userRolesCache[u] # None THEN ctx
    ELSE [ctx EXCEPT !.userRolesCache[u] = Some(RolesOf(members, u))]

\* tryGetUserColor(u): the context after the call; the value returned is
\* then userColorCache[u].
TryGetUserColor(ctx, members, u) ==
    IF ctx.userColorCache[u] # None THEN ctx
    ELSE LET c == GetUserRoles(ctx, members, u)
         IN [c EXCEPT !.userColorCache[u] = Some(ColorOf(Val(c.userRolesCache[u])))]

\* buildUserJson(user, includeRoles) for each user of a list in turn.
RECURSIVE BuildUserJson(_, _, _, _)
BuildUserJson(ctx, members, users, includeRoles) ==
    IF users = <<>> THEN ctx
    ELSE LET c == TryGetUserColor(ctx, members, Head(users))
         IN BuildUserJson(IF includeRoles THEN GetUserRoles(c, members, Head(users))
                          ELSE c,
                          members, Tail(users), includeRoles)

\* writeMessage up to the embeds: the JSON writer builds the author; the HTML
\* writer asks for the colour of the author (of the first message of the
\* group, whom the batch resolution has cached by then).
BuildBeforeEmbeds(format, ctx, members, m) ==
    IF format = "Json" THEN BuildUserJson(ctx, members, <<m.author>>, TRUE)
    ELSE IF format = "Html" THEN TryGetUserColor(ctx, members, m.author)
    ELSE ctx

\* writeMessage after the embeds: the JSON writer builds the users of the
\* reactions, then the mentioned users.
BuildAfterEmbeds(format, ctx, members, m) ==
    IF format = "Json"
    THEN BuildUserJson(BuildUserJson(ctx, members, m.reactionUsers, FALSE),
                       members, m.mentionedUsers, TRUE)
    ELSE ctx

\* populateMemberInternal past the has() test: one tryGetGuildMember request
\* for each look-up started.
Requested(ctx, started) ==
    [ctx EXCEPT !.requests =
        [u \in DOMAIN @ |-> @[u] + Cardinality({t \in started : t[1] = u})]]

\* ---------------------------------------------------------------------------
\* ChannelExporter.processBatch helpers
\* ---------------------------------------------------------------------------
RECURSIVE Dedup(_, _)
Dedup(s, seen) ==
    IF s = <<>> THEN <<>>
    ELSE IF Head(s) \in seen THEN Dedup(Tail(s), seen)
         ELSE <<Head(s)>> \o Dedup(Tail(s), seen \cup {Head(s)})

RECURSIVE Flatten(_)
Flatten(ss) == IF ss = <<>> THEN <<>> ELSE Head(ss) \o Flatten(Tail(ss))

\* The uniqueUsers map of processBatch, as the array of its values.
UniqueUsers(messages) ==
    Dedup(Flatten([i \in 1..Len(messages) |-> GetReferencedUsers(messages[i])]), {})

\* userArray.slice(i, i + PARALLEL_LIMIT)
GroupSlice(userArray, i) ==
    SubSeq(userArray, i + 1, Min(i + PARALLEL_LIMIT, Len(userArray)))

\* Promise.all not awaited.
AllSettledNotAwaited(tasks) == TRUE

\* await Promise.all(...): every task of the group has settled.
AllSettled(tasks) == tasks = {}

\* The user mentions a writer resolves through populateMember, one request
\* each, while it renders the embed fields of a message: the CSV writer does
\* not render embeds; the HTML writer renders when it writes the message
\* group (the inputs give embed fields to PlainText, CSV and JSON exports).
RenderedMentions(format, m) ==
    IF format \in {"PlainText", "Json"} THEN m.fieldMentions ELSE <<>>

\* The indices of the mentions whose user is not in the member cache.
Uncached(mentions, cache) ==
    {k \in 1..Len(mentions) : cache[mentions[k]] = "absent"}

\* The look-ups a writer starts together: the JSON writer renders all fields
\* of an embed under one Promise.all; the others render them one by one.
LaunchedTogether(format, mentions, cache) ==
    LET need == Uncached(mentions, cache)
    IN IF need = {} THEN {}
       ELSE IF format = "Json" THEN {<<mentions[k], k>> : k \in need}
            ELSE LET k == CHOOSE x \in need : \A y \in need : x <= y
                 IN {<<mentions[k], k>>}

\* The writer's await of the look-ups it started.
RenderSettled(tasks) == tasks = {}

\* messageBatch.length >= BATCH_SIZE
BatchIsFull(messageBatch) == Len(messageBatch) >= BATCH_SIZE

\* response.map(Message.parse) without the reversal.
ParsePageUnreversed(response) == response

\* response.map(Message.parse).reverse()
ParsePage(response) == ReverseSeq(response)

\* ---------------------------------------------------------------------------
\* State
\* ---------------------------------------------------------------------------
VARIABLES
    req,            \* the ExportRequest: channel, after, before, format, ...
    env,            \* the upstream guild: number of messages and of users
    pc,             \* position of exportChannel
    error,          \* the error exportChannel fails with, if any
    gen,            \* getMessages: lastMessage, currentAfter, rest of the page
    messageBatch,   \* exportChannel's messageBatch
    resolve,        \* processBatch: userArray, loop index i, last batch or not
    inflight,       \* member look-ups in flight: <<user, 0>> started by
                    \* processBatch, <<user, k>> by the writer for field k
    membersById,    \* ExportContext.membersById
    widx,           \* processBatch: index of the next message to export
    sink,           \* the MessageExporter and the files it created
    http,           \* DiscordClient.getResponse: one logical request
    client,         \* DiscordClient: resolvedTokenKind and the calls of
                    \* getAuthenticatedResponse under way
    context,        \* ExportContext: userRolesCache, userColorCache, and the
                    \* number of tryGetGuildMember requests issued per user
    signal,         \* the caller of exportChannel has asked for the export
                    \* to be cancelled
    call            \* a call of one of the library's functions (parseFilter,
                    \* Snowflake.parse, normalizeEmbeds, matchAll): its input,
                    \* its position and its result

vars == <<req, env, pc, error, gen, messageBatch, resolve, inflight,
          membersById, widx, sink, http, client, context, signal, call>>

pipelineVars == <<req, env, pc, error, gen, messageBatch, resolve, inflight,
                  membersById, widx, sink, context>>

Formats == {"PlainText", "Html", "Csv", "Json"}

Limits ==
    {[kind |-> "null", n |-> 0]}
    \cup {[kind |-> "count", n |-> n] : n \in 1..MaxCount}
    \cup {[kind |-> "size", n |-> n] : n \in {1, MaxSize}}

Filters ==
    {[kind |-> "null", value |-> 0]}
    \cup {[kind |-> "from", value |-> u] : u \in 0..1}

LargeCounts ==
    {BATCH_SIZE, BATCH_SIZE + 1, PAGINATION_LIMIT, PAGINATION_LIMIT + 1}

\* lastMessageId of the channel object: null for a channel that never held a
\* message; otherwise the id of its newest message (possibly deleted since).
LastMessageIds(nMsgs) ==
    IF nMsgs = 0 THEN {None, Some(ChannelId + 1)} ELSE {Some(ChannelId + nMsgs)}

Request(kind, nMsgs, lastId, after, before, format, limit, filter) ==
    [channel |-> [id |-> ChannelId, kind |-> kind, lastMessageId |-> lastId],
     after |-> after,
     before |-> before,
     format |-> format,
     partitionLimit |-> limit,
     messageFilter |-> filter]

\* One logical request of a client built with the given dispatcher and
\* rate-limit preference, before its first attempt.
HttpRequest(position, dispatcher, preference, tokenKind) ==
    [pc |-> position, dispatcher |-> dispatcher, preference |-> preference,
     tokenKind |-> tokenKind, attempt |-> 0, agentRetries |-> 0,
     httpAttempts |-> 0, last |-> None, headers |-> <<None, None>>,
     retried |-> None, retriedBy |-> "none",
     sleptMs |-> 0, delayMs |-> 0, result |-> None, thrown |-> "none"]

HttpIdle == HttpRequest("idle", "retryAgent", 3, "Bot")

\* A DiscordClient holding the given token (a user token, a bot token or an
\* invalid one), before its first request; no call is under way.
NewClient(token) ==
    [token |-> token, resolvedTokenKind |-> None,
     calls |-> [c \in 1..MaxCallers |-> [pc |-> "idle", kind |-> "none", made |-> 0]],
     probeRuns |-> 0, probeThrew |-> FALSE]

\* A fresh ExportContext: both derived caches empty, no request issued.
NewContext(users) ==
    [userRolesCache |-> [u \in users |-> None],
     userColorCache |-> [u \in users |-> None],
     requests |-> [u \in users |-> 0]]

\* No library function is being called.
NoCall == [fn |-> "none"]

NewSink ==
    [partitionIndex |-> 0, writer |-> None, messagesExported |-> 0,
     files |-> <<>>, ops |-> <<>>, handed |-> <<>>]

InitPipelineState ==
    /\ pc = "start"
    /\ error = None
    /\ gen = [lastMessage |-> 0, currentAfter |-> 0, page |-> <<>>,
              requests |-> <<>>, emitted |-> 0, ended |-> "no"]
    /\ messageBatch = <<>>
    /\ resolve = [users |-> <<>>, i |-> 0, final |-> FALSE]
    /\ inflight = {}
    /\ membersById = [u \in 1..(env.nUsers + env.nFields) |-> "absent"]
    /\ widx = 1
    /\ sink = NewSink
    /\ context = NewContext(1..(env.nUsers + env.nFields))

\* Small channels, every combination of range, format, limit and filter.
InitSmall ==
    \E nMsgs \in 0..MaxSmall, nUsers \in 1..2, format \in Formats,
       limit \in Limits, filter \in Filters :
      \E lastId \in LastMessageIds(nMsgs),
         after \in {None, Some(ChannelId + 1), Some(ChannelId + nMsgs)},
         before \in {None, Some(ChannelId), Some(ChannelId + 2), Some(ChannelId + 3)} :
        /\ env = [nMsgs |-> nMsgs, nUsers |-> nUsers, nFields |-> 0,
                  fieldUsers |-> 1, embedFrom |-> 0, reactor |-> 0]
        /\ req = Request("text", nMsgs, lastId, after, before, format, limit, filter)

\* Channels spanning several batches and pages.
InitLarge ==
    \E nMsgs \in LargeCounts,
       limit \in {[kind |-> "null", n |-> 0], [kind |-> "count", n |-> MaxCount]} :
      \E range \in {<<None, None>>, <<Some(ChannelId + 1), Some(ChannelId + nMsgs)>>} :
        /\ env = [nMsgs |-> nMsgs, nUsers |-> 2, nFields |-> 0,
                  fieldUsers |-> 1, embedFrom |-> 0, reactor |-> 0]
        /\ req = Request("text", nMsgs, Some(ChannelId + nMsgs), range[1], range[2],
                         "PlainText", limit, [kind |-> "null", value |-> 0])

\* A channel of more than one batch whose messages reference more users than
\* one look-up group holds.
InitManyUsers ==
    /\ env = [nMsgs |-> BATCH_SIZE + 1, nUsers |-> MaxUsers, nFields |-> 0,
                  fieldUsers |-> 1, embedFrom |-> 0, reactor |-> 0]
    /\ req = Request("text", BATCH_SIZE + 1, Some(ChannelId + BATCH_SIZE + 1),
                     None, None, "PlainText",
                     [kind |-> "null", n |-> 0], [kind |-> "null", value |-> 0])

\* Messages whose embed has more fields, each mentioning another user, than
\* one look-up group holds.
InitEmbeds ==
    \E nMsgs \in 1..2, format \in {"PlainText", "Csv", "Json"},
       limit \in {[kind |-> "null", n |-> 0], [kind |-> "count", n |-> 1]} :
        /\ env = [nMsgs |-> nMsgs, nUsers |-> 1, nFields |-> MaxUsers,
                  fieldUsers |-> MaxUsers, embedFrom |-> 0, reactor |-> 0]
        /\ req = Request("text", nMsgs, Some(ChannelId + nMsgs), None, None,
                         format, limit, [kind |-> "null", value |-> 0])

\* Embeds whose fields mention the same user or two users, carried by all
\* messages or by the second only, with or without a reaction of the author
\* or of a user the fields mention.
InitContext ==
    \E nMsgs \in 1..2, format \in {"PlainText", "Json"}, fieldUsers \in 1..2,
       embedFrom \in {0, ChannelId + 2}, reactor \in {0, 1, 3} :
        /\ env = [nMsgs |-> nMsgs, nUsers |-> 2, nFields |-> 2,
                  fieldUsers |-> fieldUsers, embedFrom |-> embedFrom,
                  reactor |-> reactor]
        /\ req = Request("text", nMsgs, Some(ChannelId + nMsgs), None, None,
                         format, [kind |-> "null", n |-> 0],
                         [kind |-> "null", value |-> 0])

\* A forum channel.
InitForum ==
    /\ env = [nMsgs |-> 0, nUsers |-> 1, nFields |-> 0,
                  fieldUsers |-> 1, embedFrom |-> 0, reactor |-> 0]
    /\ req = Request("forum", 0, Some(ChannelId + 1), None, None, "PlainText",
                     [kind |-> "null", n |-> 0], [kind |-> "null", value |-> 0])

Init ==
    /\ InitSmall \/ InitLarge \/ InitManyUsers \/ InitEmbeds \/ InitContext
       \/ InitForum
    /\ InitPipelineState
    /\ http = HttpIdle
    /\ client = NewClient("Bot")
    /\ signal = FALSE
    /\ call = NoCall

\* ---------------------------------------------------------------------------
\* Errors
\* ---------------------------------------------------------------------------
\* An error value: name, whether it is a DiscordChatExporterError (only
\* those carry isFatal), the id of the message its text names (processBatch's
\* wrapper) and its cause.
NewError(name, isDomain, isFatal) ==
    [name |-> name, isDomain |-> isDomain, isFatal |-> isFatal,
     context |-> None, cause |-> None]

\* new DiscordChatExporterError(message, isFatal = false)
DomainError(isFatal) == NewError("DiscordChatExporterError", TRUE, isFatal)

\* new ChannelEmptyError(message): super(message, false)
ChannelEmptyError == NewError("ChannelEmptyError", TRUE, FALSE)

\* new UnsupportedChannelError(message): super(message, true)
UnsupportedChannelError == NewError("UnsupportedChannelError", TRUE, TRUE)

\* What getResponse throws after its loop: lastError (the error of undici's
\* request) or new Error(...).  Neither is a DiscordChatExporterError; such
\* an error has no isFatal property.
RawError(thrown) == NewError(thrown, FALSE, FALSE)

\* isSuccessStatusCode(statusCode)
IsSuccessStatusCode(statusCode) == statusCode >= 200 /\ statusCode < 300

\* getJsonResponse on a request that did not succeed: the error of
\* getResponse passes through unchanged; a returned response is turned into
\* a domain error by its status.
GetJsonResponseError(h) ==
    IF h.pc = "failed" THEN RawError(h.thrown)
    ELSE CASE Val(h.result) = 401 -> DomainError(TRUE)
           [] Val(h.result) \in {403, 404} -> DomainError(FALSE)
           [] OTHER -> DomainError(TRUE)

\* The ways a logical request ends without success: attempts used up, or a
\* response outside 2xx returned.
FailedRequests ==
    {[HttpIdle EXCEPT !.pc = "failed", !.thrown = t] : t \in {"lastError", "Error"}}
    \cup {[HttpIdle EXCEPT !.pc = "returned", !.result = Some(n)] :
            n \in {n \in {200, 400, 401, 403, 404} : ~IsSuccessStatusCode(n)}}

\* The errors a request of the client ends with.
RequestErrors == {GetJsonResponseError(h) : h \in FailedRequests}

\* processBatch's catch around exportMessage: a DiscordChatExporterError is
\* wrapped (message naming guild, channel and message id; isFatal and cause
\* taken from the error), anything else is thrown again as it is.
WrapExportError(e, m) ==
    IF e.isDomain
    THEN [name |-> "DiscordChatExporterError", isDomain |-> TRUE,
          isFatal |-> e.isFatal, context |-> Some(m.id), cause |-> Some(e)]
    ELSE e

\* ---------------------------------------------------------------------------
\* ChannelExporter.exportChannel
\* ---------------------------------------------------------------------------
\* The test that makes exportChannel raise ChannelEmptyError.
ChannelHasNoMessages(rq) ==
    \/ ChannelIsEmpty(rq.channel)
    \/ rq.before # None /\ ~MayHaveMessagesBefore(rq.channel, Val(rq.before))
    \/ rq.after # None /\ ~MayHaveMessagesAfter(rq.channel, Val(rq.after))

\* Where the consumer loop continues once the generator is resumed.
GenPc(page) == IF page = <<>> THEN "fetch" ELSE "yield"

\* Forum channels are refused before anything is created.
ExportUnsupported ==
    /\ pc = "start"
    /\ req.channel.kind = "forum"
    /\ error' = Some(UnsupportedChannelError)
    /\ pc' = "done"
    /\ UNCHANGED <<req, env, gen, messageBatch, resolve, inflight, membersById,
                   widx, sink, http, client, context, signal, call>>

\* context.populateChannelsAndRoles() succeeds; the MessageExporter is created.
ExportPopulate ==
    /\ pc = "start"
    /\ req.channel.kind # "forum"
    /\ pc' = "check"
    /\ UNCHANGED <<req, env, error, gen, messageBatch, resolve, inflight,
                   membersById, widx, sink, http, client, context, signal, call>>

\* context.populateChannelsAndRoles() fails: exportChannel fails before the try.
ExportPopulateFails ==
    /\ pc = "start"
    /\ req.channel.kind # "forum"
    /\ \E e \in RequestErrors : error' = Some(e)
    /\ pc' = "done"
    /\ UNCHANGED <<req, env, gen, messageBatch, resolve, inflight, membersById,
                   widx, sink, http, client, context, signal, call>>

\* The emptiness and range checks at the head of the try block.
CheckChannel ==
    /\ pc = "check"
    /\ IF ChannelHasNoMessages(req)
       THEN error' = Some(ChannelEmptyError) /\ pc' = "finally"
       ELSE error' = error /\ pc' = "probe"
    /\ UNCHANGED <<req, env, gen, messageBatch, resolve, inflight, membersById,
                   widx, sink, http, client, context, signal, call>>

\* getMessages up to its loop: tryGetLastMessage and the range test.
GetLastMessage ==
    /\ pc = "probe"
    /\ LET lastMessage == UpstreamLastBefore(env.nMsgs, req.before)
       IN IF \/ lastMessage = None
             \/ /\ req.after # None
                /\ Timestamp(Val(lastMessage)) < Timestamp(Val(req.after))
          THEN pc' = "flush" /\ gen' = [gen EXCEPT !.ended = "probe"]
          ELSE /\ pc' = "fetch"
               /\ gen' = [gen EXCEPT
                            !.lastMessage = Val(lastMessage),
                            !.currentAfter = IF req.after # None THEN Val(req.after) ELSE 0]
    /\ UNCHANGED <<req, env, error, messageBatch, resolve, inflight, membersById,
                   widx, sink, http, client, context, signal, call>>

\* A request of getMessages fails; the error leaves through the finally block.
RequestFails ==
    /\ pc \in {"probe", "fetch"}
    /\ \E e \in RequestErrors : error' = Some(e)
    /\ pc' = "finally"
    /\ UNCHANGED <<req, env, gen, messageBatch, resolve, inflight, membersById,
                   widx, sink, http, client, context, signal, call>>

\* getMessages, taking any page shorter than the limit for the end.
PageEndsStreamWhenShort(messages) == Len(messages) < PAGINATION_LIMIT

\* getMessages: messages.length === 0 ends the stream.
PageEndsStream(messages) == messages = <<>>

\* One turn of the while loop of getMessages: request and parse a page.
FetchPage ==
    /\ pc = "fetch"
    /\ LET messages == ParsePage(UpstreamPageAfter(env.nMsgs, gen.currentAfter,
                                                   PAGINATION_LIMIT))
           requested == [gen EXCEPT !.requests =
                            Append(@, [cursor |-> gen.currentAfter,
                                       emitted |-> gen.emitted,
                                       len |-> Len(messages)])]
       IN IF PageEndsStream(messages)
          THEN pc' = "flush" /\ gen' = [requested EXCEPT !.ended = "page"]
          ELSE pc' = "yield" /\ gen' = [requested EXCEPT !.page = messages]
    /\ UNCHANGED <<req, env, error, messageBatch, resolve, inflight, membersById,
                   widx, sink, http, client, context, signal, call>>

\* getMessages yields the next message of the page and the consumer loop
\* pushes it on the batch; a full batch goes to processBatch.
YieldMessage ==
    /\ pc = "yield"
    /\ gen.page # <<>>
    /\ LET id == Head(gen.page)
       IN IF Timestamp(id) > Timestamp(gen.lastMessage)
          THEN /\ pc' = "flush"
               /\ gen' = [gen EXCEPT !.ended = "range"]
               /\ UNCHANGED <<messageBatch, resolve, signal, call>>
          ELSE LET batch == Append(messageBatch, Msg(id, env))
               IN /\ gen' = [gen EXCEPT !.page = Tail(@), !.currentAfter = id,
                                        !.emitted = id]
                  /\ messageBatch' = batch
                  /\ IF BatchIsFull(batch)
                     THEN /\ pc' = "resolve"
                          /\ resolve' = [users |-> UniqueUsers(batch), i |-> 0,
                                         final |-> FALSE]
                     ELSE /\ pc' = GenPc(Tail(gen.page))
                          /\ resolve' = resolve
    /\ UNCHANGED <<req, env, error, inflight, membersById, widx, sink, http, client, context, signal, call>>

\* The stream has ended: the remaining messages are processed, if any.
Flush ==
    /\ pc = "flush"
    /\ IF Len(messageBatch) > 0
       THEN /\ pc' = "resolve"
            /\ resolve' = [users |-> UniqueUsers(messageBatch), i |-> 0,
                           final |-> TRUE]
       ELSE pc' = "finally" /\ resolve' = resolve
    /\ UNCHANGED <<req, env, error, gen, messageBatch, inflight, membersById,
                   widx, sink, http, client, context, signal, call>>

\* processBatch: the next group of users is looked up in parallel.  A user
\* already in the cache costs no request (populateMemberInternal returns).
StartGroup ==
    /\ pc = "resolve"
    /\ resolve.i < Len(resolve.users)
    /\ AllSettled(inflight)
    /\ LET batch == GroupSlice(resolve.users, resolve.i)
           started == {<<batch[k], 0>> : k \in Uncached(batch, membersById)}
       IN /\ inflight' = inflight \cup started
          /\ context' = Requested(context, started)
    /\ resolve' = [resolve EXCEPT !.i = @ + PARALLEL_LIMIT]
    /\ UNCHANGED <<req, env, pc, error, gen, messageBatch, membersById, widx,
                   sink, http, client, signal, call>>

\* populateMemberInternal after tryGetGuildMember answered: what is stored is
\* the member, else the fallback member made from the user (the one passed
\* by processBatch, or the one tryGetUser returns), else null.
LookupResult(t) ==
    IF IsGuildMember(t[1]) THEN "member"
    ELSE IF t[2] = 0 \/ UserExists(t[1]) THEN "fallback"
         ELSE "null"

LookupCompletes(t) ==
    /\ t \in inflight
    /\ inflight' = inflight \ {t}
    /\ membersById' = [membersById EXCEPT ![t[1]] = LookupResult(t)]
    /\ UNCHANGED <<req, env, pc, error, gen, messageBatch, resolve, widx, sink, http, client, context, signal, call>>

\* tryGetGuildMember fails during processBatch's resolution: Promise.all
\* rejects at once and processBatch throws, while the other look-ups of the
\* group stay in flight (the failure of a look-up left behind is ignored and
\* changes nothing).
LookupFails(t) ==
    /\ pc = "resolve"
    /\ t \in inflight
    /\ inflight' = inflight \ {t}
    /\ \E e \in RequestErrors : error' = Some(e)
    /\ pc' = "finally"
    /\ UNCHANGED <<req, env, gen, messageBatch, resolve, membersById, widx, sink, http, client, context, signal, call>>

\* All groups have been awaited: the messages of the batch are exported next.
ResolveDone ==
    /\ pc = "resolve"
    /\ resolve.i >= Len(resolve.users)
    /\ AllSettled(inflight)
    /\ pc' = "write"
    /\ widx' = 1
    /\ UNCHANGED <<req, env, error, gen, messageBatch, resolve, inflight,
                   membersById, sink, http, client, context, signal, call>>

\* Where exportChannel continues after processBatch returned.
AfterBatch == IF resolve.final THEN "finally" ELSE GenPc(gen.page)

\* The export loop of processBatch moves to the next message, or returns.
NextMessage ==
    IF widx = Len(messageBatch)
    THEN /\ pc' = AfterBatch
         /\ messageBatch' = <<>>
         /\ widx' = 1
    ELSE /\ pc' = "write"
         /\ messageBatch' = messageBatch
         /\ widx' = widx + 1

\* One turn of the export loop of processBatch for a message the filter
\* rejects, or one the writer renders without a request.
WriteNext ==
    /\ pc = "write"
    /\ LET m == messageBatch[widx]
       IN /\ FilterIsMatch(req.messageFilter, m) =>
               Uncached(RenderedMentions(req.format, m), membersById) = {}
          /\ sink' = IF FilterIsMatch(req.messageFilter, m)
                     THEN ExportMessage(req, sink, m)
                     ELSE sink
          /\ context' = IF FilterIsMatch(req.messageFilter, m)
                        THEN BuildAfterEmbeds(req.format,
                                 BuildBeforeEmbeds(req.format, context, membersById, m),
                                 membersById, m)
                        ELSE context
    /\ NextMessage
    /\ UNCHANGED <<req, env, error, gen, resolve, inflight, membersById, http, client, signal, call>>

\* exportMessage for a message whose rendering needs member look-ups: the
\* writer starts the first of them.
WriteBegin ==
    /\ pc = "write"
    /\ LET m == messageBatch[widx]
           mentions == RenderedMentions(req.format, m)
       IN /\ FilterIsMatch(req.messageFilter, m)
          /\ Uncached(mentions, membersById) # {}
          /\ sink' = ExportMessageBegin(req, sink, m)
          /\ inflight' = inflight \cup LaunchedTogether(req.format, mentions, membersById)
          /\ context' = Requested(BuildBeforeEmbeds(req.format, context, membersById, m),
                                  LaunchedTogether(req.format, mentions, membersById))
    /\ pc' = "render"
    /\ UNCHANGED <<req, env, error, gen, messageBatch, resolve, membersById,
                   widx, http, client, signal, call>>

\* The writer goes on to the next mention that needs a look-up.
RenderNext ==
    /\ pc = "render"
    /\ RenderSettled(inflight)
    /\ LET mentions == RenderedMentions(req.format, messageBatch[widx])
       IN /\ Uncached(mentions, membersById) # {}
          /\ inflight' = inflight \cup LaunchedTogether(req.format, mentions, membersById)
          /\ context' = Requested(context,
                                  LaunchedTogether(req.format, mentions, membersById))
    /\ UNCHANGED <<req, env, pc, error, gen, messageBatch, resolve, membersById,
                   widx, sink, http, client, signal, call>>

\* Every mention is resolved: writeMessage completes and exportMessage returns.
WriteEnd ==
    /\ pc = "render"
    /\ RenderSettled(inflight)
    /\ Uncached(RenderedMentions(req.format, messageBatch[widx]), membersById) = {}
    /\ sink' = ExportMessageEnd(req, sink, messageBatch[widx])
    /\ context' = BuildAfterEmbeds(req.format, context, membersById, messageBatch[widx])
    /\ NextMessage
    /\ UNCHANGED <<req, env, error, gen, resolve, inflight, membersById, http, client, signal, call>>

\* A look-up of the writer fails: writeMessage throws, and the error is
\* wrapped, keeping its isFatal flag, and leaves through the finally block.
RenderFails(t) ==
    /\ pc = "render"
    /\ t \in inflight
    /\ inflight' = inflight \ {t}
    /\ sink' = ExportMessageThrows(sink, messageBatch[widx])
    /\ \E e \in RequestErrors : error' = Some(WrapExportError(e, messageBatch[widx]))
    /\ pc' = "finally"
    /\ UNCHANGED <<req, env, gen, messageBatch, resolve, membersById, widx, http, client, context, signal, call>>

\* Another request of writeMessage fails (the reaction users of the JSON
\* writer): exportMessage throws in the same way.
WriteFails ==
    /\ pc = "write"
    /\ FilterIsMatch(req.messageFilter, messageBatch[widx])
    /\ sink' = ExportMessageThrows(ExportMessageBegin(req, sink, messageBatch[widx]),
                                   messageBatch[widx])
    /\ \E e \in RequestErrors : error' = Some(WrapExportError(e, messageBatch[widx]))
    /\ context' = BuildBeforeEmbeds(req.format, context, membersById, messageBatch[widx])
    /\ pc' = "finally"
    /\ UNCHANGED <<req, env, gen, messageBatch, resolve, inflight, membersById,
                   widx, http, client, signal, call>>

\* The finally block: messageExporter.dispose().
Finally ==
    /\ pc = "finally"
    /\ sink' = Dispose(req, sink)
    /\ pc' = "done"
    /\ UNCHANGED <<req, env, error, gen, messageBatch, resolve, inflight,
                   membersById, widx, http, client, context, signal, call>>

\* The finally block when writePostamble throws in dispose(): the HTML writer
\* has a message group left to render and a request of the rendering fails.
\* The error of dispose() replaces the one the export was leaving with.
FinallyPostambleThrows ==
    /\ pc = "finally"
    /\ req.format = "Html"
    /\ sink.writer # None
    /\ Val(sink.writer).buffer # <<>>
    /\ sink' = UninitializeWriterThrows([sink EXCEPT !.ops = <<>>])
    /\ \E e \in RequestErrors : error' = Some(e)
    /\ pc' = "done"
    /\ UNCHANGED <<req, env, gen, messageBatch, resolve, inflight,
                   membersById, widx, http, client, context, signal, call>>

\* exportMessage when the partition limit is reached and writePostamble of
\* the full partition throws in the same way: initializeWriter throws, the
\* message is not written and the error leaves through the finally block.
RolloverPostambleThrows ==
    /\ pc = "write"
    /\ req.format = "Html"
    /\ FilterIsMatch(req.messageFilter, messageBatch[widx])
    /\ sink.writer # None
    /\ Val(sink.writer).buffer # <<>>
    /\ IsReached(req.partitionLimit, Val(sink.writer).messagesWritten,
                 Val(sink.writer).bytesWritten)
    /\ sink' = UninitializeWriterThrows([sink EXCEPT !.ops = <<>>])
    /\ \E e \in RequestErrors : error' = Some(WrapExportError(e, messageBatch[widx]))
    /\ pc' = "finally"
    /\ UNCHANGED <<req, env, gen, messageBatch, resolve, inflight,
                   membersById, widx, http, client, context, signal, call>>

Next ==
    \/ ExportUnsupported
    \/ ExportPopulate
    \/ ExportPopulateFails
    \/ CheckChannel
    \/ GetLastMessage
    \/ RequestFails
    \/ FetchPage
    \/ YieldMessage
    \/ Flush
    \/ StartGroup
    \/ \E t \in inflight : LookupCompletes(t)
    \/ \E t \in inflight : LookupFails(t)
    \/ ResolveDone
    \/ WriteNext
    \/ WriteBegin
    \/ RenderNext
    \/ WriteEnd
    \/ \E t \in inflight : RenderFails(t)
    \/ WriteFails
    \/ RolloverPostambleThrows
    \/ Finally
    \/ FinallyPostambleThrows

Spec == Init /\ [][Next]_vars

\* ---------------------------------------------------------------------------
\* exportChannel with a caller that asks for cancellation
\* ---------------------------------------------------------------------------
\* The caller asks, at any moment of an export under way, for the export to
\* be cancelled.  exportChannel(request, progress) and getMessages(channelId,
\* after, before, progress) take no parameter that could carry the signal,
\* and nothing in the client or the writers reads one: no state of the
\* program changes.
Signal ==
    /\ ~signal
    /\ pc # "done"
    /\ signal' = TRUE
    /\ UNCHANGED <<pipelineVars, http, client, call>>

\* An HTML export of two messages, one per partition.
InitPartitionedHtml ==
    /\ env = [nMsgs |-> 2, nUsers |-> 1, nFields |-> 0,
              fieldUsers |-> 1, embedFrom |-> 0, reactor |-> 0]
    /\ req = Request("text", 2, Some(ChannelId + 2), None, None, "Html",
                     [kind |-> "count", n |-> 1], [kind |-> "null", value |-> 0])

InitCancel ==
    /\ InitContext \/ InitForum \/ InitPartitionedHtml
    /\ InitPipelineState
    /\ http = HttpIdle
    /\ client = NewClient("Bot")
    /\ signal = FALSE
    /\ call = NoCall

NextCancel == Signal \/ Next

SpecCancel == InitCancel /\ [][NextCancel]_vars

\* ---------------------------------------------------------------------------
\* HtmlMessageWriter fed with messages of every kind
\* ---------------------------------------------------------------------------
\* The next message of the channel: by one of two authors, whose user name
\* or display name may have changed since their last message, sent at once,
\* exactly the grouping window or one millisecond more after the message
\* before it, and a default message, a reply or a system notification.
NextMessages(st) ==
    LET id == ChannelId + Len(st.handed) + 1
        last == IF st.writer = None \/ Val(st.writer).buffer = <<>> THEN 0
                ELSE Val(st.writer).buffer[Len(Val(st.writer).buffer)].timestamp
    IN {[Msg(id, env) EXCEPT
            !.author = a,
            !.fullName = a + names[1],
            !.displayName = a + names[2],
            !.timestamp = last + delta,
            !.isReplyLike = (kind = "reply"),
            !.isSystemNotification = (kind = "system")] :
          a \in 1..2, names \in {<<0, 0>>, <<2, 0>>, <<0, 2>>},
          delta \in {0, GROUP_WINDOW_MS, GROUP_WINDOW_MS + 1},
          kind \in {"default", "reply", "system"}}

\* exportMessage(m) on the HTML writer.
WriteHtmlMessage(m) ==
    /\ Len(sink.handed) < MaxGroupLen
    /\ sink' = ExportMessage(req, sink, m)
    /\ UNCHANGED <<req, env, pc, error, gen, messageBatch, resolve, inflight,
                   membersById, widx, http, client, context, signal, call>>

\* dispose(): the last group is written.
DisposeHtml ==
    /\ pc = "start"
    /\ sink' = Dispose(req, sink)
    /\ pc' = "done"
    /\ UNCHANGED <<req, env, error, gen, messageBatch, resolve, inflight,
                   membersById, widx, http, client, context, signal, call>>

InitGroup ==
    /\ env = [nMsgs |-> MaxGroupLen, nUsers |-> 2, nFields |-> 0, fieldUsers |-> 1,
              embedFrom |-> 0, reactor |-> 0]
    /\ req = Request("text", MaxGroupLen, Some(ChannelId + MaxGroupLen), None, None,
                     "Html", [kind |-> "null", n |-> 0], [kind |-> "null", value |-> 0])
    /\ InitPipelineState
    /\ http = HttpIdle
    /\ client = NewClient("Bot")
    /\ signal = FALSE
    /\ call = NoCall

NextGroup ==
    \/ \E m \in NextMessages(sink) : pc = "start" /\ WriteHtmlMessage(m)
    \/ DisposeHtml

SpecGroup == InitGroup /\ [][NextGroup]_vars

\* ---------------------------------------------------------------------------
\* DiscordClient.getResponse: one logical request, attempt by attempt
\* ---------------------------------------------------------------------------
\* Outcome of one HTTP attempt: a response status, or a transport error.
\* ECONNRESET stands for the error codes RetryAgent retries by default,
\* ConnectTimeout for those it hands straight back to the caller.
TransportError(code) == [kind |-> "error", code |-> code, status |-> 0]

Response(status) == [kind |-> "response", code |-> "", status |-> status]

ECONNRESET == TransportError("ECONNRESET")

ConnectTimeout == TransportError("UND_ERR_CONNECT_TIMEOUT")

TransportErrors == {ECONNRESET, ConnectTimeout}

Statuses == {Response(n) : n \in {200, 404, 408, 429, 503, 599, 600}}

Outcomes == Statuses \cup TransportErrors

IsTransportError(o) == o.kind = "error"

StatusOf(o) == o.status

\* RETRYABLE_STATUS_CODES
RETRYABLE_STATUS_CODES == {408, 429, 500, 502, 503, 504}

\* isRetryableStatusCode(statusCode)
IsRetryableStatusCode(statusCode) ==
    statusCode \in RETRYABLE_STATUS_CODES \/ statusCode >= 500

\* What the default dispatcher, RetryAgent(baseAgent, {maxRetries: 4, ...}),
\* retries by itself: its default status codes and error codes.
AgentRetryable(o) ==
    IF IsTransportError(o) THEN o = ECONNRESET
    ELSE StatusOf(o) \in {500, 502, 503, 504, 429}

\* The dispatcher sends the request again instead of settling request().
AgentRetries(h, o) ==
    /\ h.dispatcher = "retryAgent"
    /\ AgentRetryable(o)
    /\ h.agentRetries < AGENT_MAX_RETRIES

\* request() rejects: a transport error, or the RetryAgent giving up on a
\* status it retries.
RequestRejects(h, o) ==
    /\ ~AgentRetries(h, o)
    /\ IsTransportError(o) \/ (h.dispatcher = "retryAgent" /\ AgentRetryable(o))

\* isRateLimitRespected(preference, tokenKind): a two-bit mask
IsRateLimitRespected(preference, tokenKind) ==
    CASE tokenKind = "User" -> preference % 2 # 0
      [] tokenKind = "Bot" -> (preference \div 2) % 2 # 0
      [] OTHER -> FALSE

\* handleRateLimitHeaders(response): the time slept, in milliseconds
RateLimitDelay(remaining, resetAfter) ==
    IF remaining # None /\ Val(remaining) <= 0 /\ resetAfter # None
    THEN Min((Val(resetAfter) + 1) * 1000, MAX_RETRY_DELAY_MS)
    ELSE 0

\* INITIAL_RETRY_DELAY_MS * Math.pow(2, attempt), capped
Backoff(attempt) ==
    Min(INITIAL_RETRY_DELAY_MS * Pow2(attempt), MAX_RETRY_DELAY_MS)

\* The delay before the next iteration after a retryable response.
RetryDelay(retryAfter, attempt) ==
    IF retryAfter # None
    THEN Min(Val(retryAfter) * 1000, MAX_RETRY_DELAY_MS)
    ELSE Backoff(attempt)

\* Header values of a response: absent, or a number (of requests, of seconds).
RemainingHeaders == {None, Some(0), Some(1)}

ResetAfterHeaders == {None, Some(2), Some(70)}

RetryAfterHeaders == {None, Some(90)}

\* The rate-limit headers an attempt's outcome can carry: x-ratelimit-remaining
\* and x-ratelimit-reset-after of a response, none for a transport error.
ResponseHeaders(o) ==
    IF IsTransportError(o) THEN {<<None, None>>}
    ELSE RemainingHeaders \X ResetAfterHeaders

\* One more HTTP attempt has been made and ended with outcome o, a response
\* with the headers hd.
Attempted(h, o, hd) ==
    [h EXCEPT !.httpAttempts = @ + 1, !.last = Some(o), !.headers = hd]

\* The end of one iteration of the for loop that did not return: attempt++,
\* then the next iteration, or the throw after the loop.
NextIteration(h, o) ==
    IF h.attempt + 1 < MAX_RETRIES
    THEN [h EXCEPT !.attempt = @ + 1, !.agentRetries = 0,
                   !.retried = Some(o), !.retriedBy = "client"]
    ELSE [h EXCEPT !.attempt = @ + 1, !.pc = "failed"]

\* The RetryAgent repeats the attempt; getResponse still awaits request().
AgentRetry(o, hd) ==
    /\ http.pc = "send"
    /\ AgentRetries(http, o)
    /\ http' = [Attempted(http, o, hd) EXCEPT !.agentRetries = @ + 1,
                                          !.retried = Some(o),
                                          !.retriedBy = "agent",
                                          !.sleptMs = 0,
                                          !.delayMs = 0]
    /\ UNCHANGED <<pipelineVars, client, signal, call>>

\* request() rejects: the catch block keeps the error and sleeps.
RequestThrows(o, hd) ==
    /\ http.pc = "send"
    /\ RequestRejects(http, o)
    /\ http' = NextIteration(
                 [Attempted(http, o, hd) EXCEPT !.thrown = "lastError",
                                            !.sleptMs = 0,
                                            !.delayMs = Backoff(http.attempt)],
                 o)
    /\ UNCHANGED <<pipelineVars, client, signal, call>>

\* request() resolves with a response.
RequestResolves(o) ==
    /\ http.pc = "send"
    /\ ~AgentRetries(http, o)
    /\ ~RequestRejects(http, o)

\* The rate-limit sleep of getResponse for a response with these headers.
RateLimitSleep(h, remaining, resetAfter) ==
    IF IsRateLimitRespected(h.preference, h.tokenKind)
    THEN RateLimitDelay(remaining, resetAfter)
    ELSE 0

\* A response with a retryable status: sleep, then continue.
ResponseRetried(o, remaining, resetAfter, retryAfter) ==
    /\ RequestResolves(o)
    /\ IsRetryableStatusCode(StatusOf(o))
    /\ http' = NextIteration(
                 [Attempted(http, o, <<remaining, resetAfter>>) EXCEPT
                     !.sleptMs = RateLimitSleep(http, remaining, resetAfter),
                     !.delayMs = RetryDelay(retryAfter, http.attempt),
                     !.thrown = IF @ = "none" THEN "Error" ELSE @],
                 o)
    /\ UNCHANGED <<pipelineVars, client, signal, call>>

\* A response with any other status: return response.
ResponseReturned(o, remaining, resetAfter) ==
    /\ RequestResolves(o)
    /\ ~IsRetryableStatusCode(StatusOf(o))
    /\ http' = [Attempted(http, o, <<remaining, resetAfter>>) EXCEPT
                   !.sleptMs = RateLimitSleep(http, remaining, resetAfter),
                   !.delayMs = 0,
                   !.pc = "returned",
                   !.result = Some(StatusOf(o)),
                   !.thrown = "none"]
    /\ UNCHANGED <<pipelineVars, client, signal, call>>

\* The clients: the default dispatcher or one passed to the constructor, each
\* rate-limit preference with each token kind.
Clients ==
    {<<"retryAgent", 3, "Bot">>}
    \cup {<<"plain", preference, tokenKind>> :
            preference \in 0..3, tokenKind \in {"User", "Bot"}}

InitHttp ==
    /\ InitForum
    /\ InitPipelineState
    /\ \E cl \in Clients :
         http = HttpRequest("send", cl[1], cl[2], cl[3])
    /\ client = NewClient("Bot")
    /\ signal = FALSE
    /\ call = NoCall

NextHttp ==
    \/ \E o \in Outcomes : \E hd \in ResponseHeaders(o) : AgentRetry(o, hd)
    \/ \E o \in Outcomes : \E hd \in ResponseHeaders(o) : RequestThrows(o, hd)
    \/ \E o \in Statuses, remaining \in RemainingHeaders,
          resetAfter \in ResetAfterHeaders, retryAfter \in RetryAfterHeaders :
         ResponseRetried(o, remaining, resetAfter, retryAfter)
    \/ \E o \in Statuses, remaining \in RemainingHeaders,
          resetAfter \in ResetAfterHeaders :
         ResponseReturned(o, remaining, resetAfter)

SpecHttp == InitHttp /\ [][NextHttp]_vars

\* ---------------------------------------------------------------------------
\* DiscordClient.resolveTokenKind under concurrent getAuthenticatedResponse
\* calls.  A call is [pc, kind, made]: where it stands, the token kind it
\* uses, the requests its caller has finished.
\* ---------------------------------------------------------------------------
\* GET users/@me answers 401 when the token is not of the kind tried.
ProbeStatus(token, tokenKind) == IF token = tokenKind THEN 200 ELSE 401

SetCall(cl, c, position, kind) ==
    [cl EXCEPT !.calls[c].pc = position, !.calls[c].kind = kind]

\* The call's request has ended (response or error): the caller is free to
\* issue its next request.
EndCall(cl, c) ==
    [cl EXCEPT !.calls[c].pc = "idle", !.calls[c].made = @ + 1]

\* getAuthenticatedResponse -> resolveTokenKind up to its first await: the
\* cached kind is returned, or the user probe is sent.
CallResolveTokenKind(c) ==
    /\ client.calls[c].pc = "idle"
    /\ client.calls[c].made < MaxRequests
    /\ client' =
         IF client.resolvedTokenKind # None
         THEN SetCall(client, c, "request", Val(client.resolvedTokenKind))
         ELSE [SetCall(client, c, "probeUser", "none") EXCEPT !.probeRuns = @ + 1]
    /\ UNCHANGED <<pipelineVars, http, signal, call>>

\* The user probe is answered.
ProbeUserAnswered(c) ==
    /\ client.calls[c].pc = "probeUser"
    /\ client' =
         IF ProbeStatus(client.token, "User") # 401
         THEN [SetCall(client, c, "request", "User") EXCEPT
                  !.resolvedTokenKind = Some("User")]
         ELSE SetCall(client, c, "probeBot", "none")
    /\ UNCHANGED <<pipelineVars, http, signal, call>>

\* The bot probe is answered; 401 again means the token is invalid.
ProbeBotAnswered(c) ==
    /\ client.calls[c].pc = "probeBot"
    /\ client' =
         IF ProbeStatus(client.token, "Bot") # 401
         THEN [SetCall(client, c, "request", "Bot") EXCEPT
                  !.resolvedTokenKind = Some("Bot")]
         ELSE EndCall(client, c)
    /\ UNCHANGED <<pipelineVars, http, signal, call>>

\* getResponse throws during a probe: resolveTokenKind rejects, nothing is
\* stored.
ProbeThrows(c) ==
    /\ client.calls[c].pc \in {"probeUser", "probeBot"}
    /\ client' = [EndCall(client, c) EXCEPT !.probeThrew = TRUE]
    /\ UNCHANGED <<pipelineVars, http, signal, call>>

\* getResponse(url, tokenKind) of the call itself ends.
AuthenticatedRequestEnds(c) ==
    /\ client.calls[c].pc = "request"
    /\ client' = EndCall(client, c)
    /\ UNCHANGED <<pipelineVars, http, signal, call>>

InitToken ==
    /\ InitForum
    /\ InitPipelineState
    /\ http = HttpIdle
    /\ \E token \in {"User", "Bot", "invalid"} : client = NewClient(token)
    /\ signal = FALSE
    /\ call = NoCall

NextToken ==
    \E c \in 1..MaxCallers :
        \/ CallResolveTokenKind(c)
        \/ ProbeUserAnswered(c)
        \/ ProbeBotAnswered(c)
        \/ ProbeThrows(c)
        \/ AuthenticatedRequestEnds(c)

SpecToken == InitToken /\ [][NextToken]_vars

\* ---------------------------------------------------------------------------
\* parseFilter: the tokenizer
\* ---------------------------------------------------------------------------
\* A program at rest, while one of the library's functions is called alone.
IdleProgram ==
    /\ InitForum
    /\ InitPipelineState
    /\ http = HttpIdle
    /\ client = NewClient("Bot")
    /\ signal = FALSE

\* Strings are sequences of characters.  toLowerCase on the letters used.
LowerChar(c) ==
    CASE c = "A" -> "a" [] c = "B" -> "b" [] c = "F" -> "f" [] c = "O" -> "o"
      [] OTHER -> c

ToLowerCase(str) == [k \in 1..Len(str) |-> LowerChar(str[k])]

\* /\s/
IsSpace(c) == c \in {" ", "\t"}

\* String.prototype.trim
RECURSIVE TrimStart(_)
TrimStart(str) ==
    IF str # <<>> /\ IsSpace(Head(str)) THEN TrimStart(Tail(str)) ELSE str

Trim(str) == ReverseSeq(TrimStart(ReverseSeq(TrimStart(str))))

\* /[\s:()"\\-]/: the characters that end a word.
EndsWord(c) == IsSpace(c) \/ c \in {":", "(", ")", "\"", "\\", "-"}

Token(type, value) == [type |-> type, value |-> value]

\* The inner loop of a quoted string, from the character after the opening
\* quote: i is the number of characters consumed so far.
RECURSIVE ScanQuoted(_, _, _)
ScanQuoted(input, i, value) ==
    IF i < Len(input) /\ input[i + 1] # "\""
    THEN IF input[i + 1] = "\\" /\ i + 1 < Len(input)
         THEN ScanQuoted(input, i + 2, Append(value, input[i + 2]))
         ELSE ScanQuoted(input, i + 1, Append(value, input[i + 1]))
    ELSE [i |-> IF i < Len(input) THEN i + 1 ELSE i, value |-> value]

\* The inner loop of a word.
RECURSIVE ScanWord(_, _, _)
ScanWord(input, i, word) ==
    IF i < Len(input) /\ ~EndsWord(input[i + 1])
    THEN ScanWord(input, i + 1, Append(word, input[i + 1]))
    ELSE [i |-> i, value |-> word]

\* The token a word stands for.
WordToken(word) ==
    LET lower == ToLowerCase(word)
    IN CASE lower \in {<<"f", "r", "o", "m">>, <<"h", "a", "s">>,
                       <<"m", "e", "n", "t", "i", "o", "n", "s">>,
                       <<"r", "e", "a", "c", "t", "i", "o", "n">>} ->
              Token("operator", lower)
         [] lower \in {<<"a", "n", "d">>, <<"&">>, <<"&", "&">>} -> Token("and", <<>>)
         [] lower \in {<<"o", "r">>, <<"|">>, <<"|", "|">>} -> Token("or", <<>>)
         [] lower \in {<<"n", "o", "t">>, <<"!">>} -> Token("not", <<>>)
         [] OTHER -> Token("text", word)

\* One turn of the while loop of tokenize, from i characters consumed: the
\* characters consumed and the tokens after it.
TokenizeIteration(input, i, tokens) ==
    LET c == input[i + 1]
    IN CASE IsSpace(c) -> [i |-> i + 1, tokens |-> tokens]
         [] c = "\"" ->
              LET q == ScanQuoted(input, i + 1, <<>>)
              IN [i |-> q.i, tokens |-> Append(tokens, Token("quoted", q.value))]
         [] c = "(" -> [i |-> i + 1, tokens |-> Append(tokens, Token("lparen", <<>>))]
         [] c = ")" -> [i |-> i + 1, tokens |-> Append(tokens, Token("rparen", <<>>))]
         [] c = ":" -> [i |-> i + 1, tokens |-> Append(tokens, Token("colon", <<>>))]
         [] c = "-" -> [i |-> i + 1, tokens |-> Append(tokens, Token("not", <<>>))]
         [] OTHER ->
              LET w == ScanWord(input, i, <<>>)
              IN [i |-> w.i,
                  tokens |-> IF Len(w.value) > 0
                             THEN Append(tokens, WordToken(w.value))
                             ELSE tokens]

\* Inputs of the tokenizer: every string of up to MaxChars characters, as
\* parseFilter passes it on (trimmed and not empty).
FilterChars == {"a", "O", "r", " ", "(", "-", "\"", "\\", ":"}

Strings(chars, n) == UNION {[1..k -> chars] : k \in 0..n}

TokenizerInputs == {Trim(str) : str \in Strings(FilterChars, MaxChars)} \ {<<>>}

InitTokenize ==
    /\ IdleProgram
    /\ \E input \in TokenizerInputs :
         call = [fn |-> "tokenize", input |-> input, pc |-> "loop",
                 i |-> 0, tokens |-> <<>>, iterations |-> 0]

\* while (i < input.length) { ... }: one turn.  The turns are counted, up to
\* one more than the input has characters.
TokenizeTurn ==
    /\ call.pc = "loop"
    /\ call.i < Len(call.input)
    /\ call.iterations <= Len(call.input)
    /\ LET t == TokenizeIteration(call.input, call.i, call.tokens)
       IN call' = [call EXCEPT !.i = t.i, !.tokens = t.tokens,
                               !.iterations = @ + 1]
    /\ UNCHANGED <<pipelineVars, http, client, signal>>

\* tokens.push({ type: 'eof' }); return tokens
TokenizeReturns ==
    /\ call.pc = "loop"
    /\ call.i >= Len(call.input)
    /\ call' = [call EXCEPT !.tokens = Append(@, Token("eof", <<>>)),
                            !.pc = "returned"]
    /\ UNCHANGED <<pipelineVars, http, client, signal>>

NextTokenize == TokenizeTurn \/ TokenizeReturns

SpecTokenize == InitTokenize /\ [][NextTokenize]_vars

\* ---------------------------------------------------------------------------
\* MessageFilter and its combinators
\* ---------------------------------------------------------------------------
\* NullMessageFilter.Instance
NullMessageFilter == <<"null">>

ContainsMessageFilter(text) == <<"contains", ToLowerCase(text)>>

FromMessageFilter(value) == <<"from", ToLowerCase(value)>>

MentionsMessageFilter(value) == <<"mentions", ToLowerCase(value)>>

HasMessageFilter(kind) == <<"has", kind>>

ReactionMessageFilter(emoji) == <<"reaction", ToLowerCase(emoji)>>

\* first.or(second) building an 'and' expression.
OrBuildingAnd(first, second) == <<"and", first, second>>

\* first.and(second)
And(first, second) == <<"and", first, second>>

\* first.or(second)
Or(first, second) == <<"or", first, second>>

\* inner.negate()
Negate(inner) == <<"not", inner>>

\* String.prototype.includes
Includes(str, part) ==
    \E k \in 0..(Len(str) - Len(part)) : SubSeq(str, k + 1, k + Len(part)) = part

\* isMatch of the filter classes.
RECURSIVE IsMatch(_, _)
IsMatch(f, message) ==
    CASE f[1] = "null" -> TRUE
      [] f[1] = "not" -> ~IsMatch(f[2], message)
      [] f[1] = "and" -> IsMatch(f[2], message) /\ IsMatch(f[3], message)
      [] f[1] = "or" -> IsMatch(f[2], message) \/ IsMatch(f[3], message)
      [] f[1] = "contains" -> Includes(ToLowerCase(message.content), f[2])
      [] f[1] = "from" ->
           \/ message.author.id = f[2]
           \/ ToLowerCase(message.author.name) = f[2]
           \/ ToLowerCase(message.author.fullName) = f[2]
      [] f[1] = "mentions" ->
           \E user \in message.mentionedUsers :
               \/ user.id = f[2]
               \/ ToLowerCase(user.name) = f[2]
               \/ ToLowerCase(user.fullName) = f[2]
      [] f[1] = "has" -> f[2] = "pin" /\ message.isPinned
      [] f[1] = "reaction" ->
           \E reaction \in message.reactions :
               \/ ToLowerCase(reaction.code) = f[2]
               \/ ToLowerCase(reaction.name) = f[2]

\* The messages the filters are tried on: with or without an "a" in the
\* content, written by b or by c.
FilterMessages ==
    {[content |-> content,
      author |-> [id |-> <<"1">>, name |-> name, fullName |-> name \o <<"#", "1">>],
      mentionedUsers |-> {}, reactions |-> {}, isPinned |-> FALSE] :
        content \in {<<>>, <<"x", "A", "x">>}, name \in {<<"B">>, <<"c">>}}

\* ---------------------------------------------------------------------------
\* parseFilter: the parser
\* ---------------------------------------------------------------------------
\* The one element of a set that holds the result of a computation: the
\* operators below bind each intermediate result as an element of a one-element
\* set, so that it is computed once however often it is used.
The(results) == CHOOSE r \in results : TRUE

\* tokenize(input), for an input on which every turn of the loop consumes a
\* character.
RECURSIVE TokenizeFrom(_, _, _)
TokenizeFrom(input, i, tokens) ==
    IF i >= Len(input) THEN Append(tokens, Token("eof", <<>>))
    ELSE The({TokenizeFrom(input, t.i, t.tokens) :
                t \in {TokenizeIteration(input, i, tokens)}})

Tokenize(input) == TokenizeFrom(input, 0, <<>>)

\* FilterParser.current, pos tokens having been consumed.
Current(tokens, pos) ==
    IF pos < Len(tokens) THEN tokens[pos + 1] ELSE Token("eof", <<>>)

\* A parsing method returned a filter, or threw.
Parsed(pos, f) == [ok |-> TRUE, pos |-> pos, filter |-> f, error |-> "none"]

Thrown(pos, e) == [ok |-> FALSE, pos |-> pos, filter |-> NullMessageFilter, error |-> e]

\* createOperatorFilter with parseHasKind; of the kinds of has: only pin (and
\* its alias pinned) can be written with the letters in use.
CreateOperatorFilter(pos, op, value) ==
    CASE op = <<"f", "r", "o", "m">> -> Parsed(pos, FromMessageFilter(value))
      [] op = <<"m", "e", "n", "t", "i", "o", "n", "s">> ->
           Parsed(pos, MentionsMessageFilter(value))
      [] op = <<"h", "a", "s">> ->
           IF ToLowerCase(value) \in {<<"p", "i", "n">>, <<"p", "i", "n", "n", "e", "d">>}
           THEN Parsed(pos, HasMessageFilter("pin"))
           ELSE Thrown(pos, "Unknown has: kind")
      [] op = <<"r", "e", "a", "c", "t", "i", "o", "n">> ->
           Parsed(pos, ReactionMessageFilter(value))
      [] OTHER -> Thrown(pos, "Unknown operator")

RECURSIVE ParseOr(_, _), ParseOrLoop(_, _, _), ParseAnd(_, _), ParseAndLoop(_, _, _)
RECURSIVE ParseUnary(_, _), ParsePrimary(_, _)

\* parsePrimary with expect and parseValue
ParsePrimary(tokens, pos) ==
    LET current == Current(tokens, pos)
    IN CASE current.type = "lparen" ->
              The({IF ~inner.ok THEN inner
                   ELSE IF Current(tokens, inner.pos).type # "rparen"
                        THEN Thrown(inner.pos, "Expected rparen")
                        ELSE Parsed(inner.pos + 1, inner.filter) :
                     inner \in {ParseOr(tokens, pos + 1)}})
         [] current.type = "operator" ->
              IF Current(tokens, pos + 1).type # "colon"
              THEN Thrown(pos + 1, "Expected colon")
              ELSE IF Current(tokens, pos + 2).type \notin {"text", "quoted"}
                   THEN Thrown(pos + 2, "Expected value")
                   ELSE CreateOperatorFilter(pos + 3, current.value,
                                             Current(tokens, pos + 2).value)
         [] current.type \in {"text", "quoted"} ->
              Parsed(pos + 1, ContainsMessageFilter(current.value))
         [] OTHER -> Thrown(pos, "Unexpected token")

\* parseUnary applying the negation to a whole unary expression.
ParseUnaryNested(tokens, pos) ==
    IF Current(tokens, pos).type = "not"
    THEN The({IF inner.ok THEN Parsed(inner.pos, Negate(inner.filter)) ELSE inner :
                inner \in {ParseAnd(tokens, pos + 1)}})
    ELSE ParsePrimary(tokens, pos)

\* parseUnary
ParseUnary(tokens, pos) ==
    IF Current(tokens, pos).type = "not"
    THEN The({IF inner.ok THEN Parsed(inner.pos, Negate(inner.filter)) ELSE inner :
                inner \in {ParsePrimary(tokens, pos + 1)}})
    ELSE ParsePrimary(tokens, pos)

\* The while loop of parseAnd.
ParseAndLoop(tokens, pos, left) ==
    LET type == Current(tokens, pos).type
    IN IF type = "and" \/ type \notin {"or", "rparen", "eof"}
       THEN The({IF right.ok
                 THEN The({ParseAndLoop(tokens, right.pos, joined) :
                             joined \in {And(left, right.filter)}})
                 ELSE right :
                   right \in {ParseUnary(tokens, IF type = "and" THEN pos + 1 ELSE pos)}})
       ELSE Parsed(pos, left)

\* parseAnd
ParseAnd(tokens, pos) ==
    The({IF left.ok THEN ParseAndLoop(tokens, left.pos, left.filter) ELSE left :
           left \in {ParseUnary(tokens, pos)}})

\* The while loop of parseOr.
ParseOrLoop(tokens, pos, left) ==
    IF Current(tokens, pos).type = "or"
    THEN The({IF right.ok
              THEN The({ParseOrLoop(tokens, right.pos, joined) :
                          joined \in {Or(left, right.filter)}})
              ELSE right :
                right \in {ParseAnd(tokens, pos + 1)}})
    ELSE Parsed(pos, left)

\* parseOr
ParseOr(tokens, pos) ==
    The({IF left.ok THEN ParseOrLoop(tokens, left.pos, left.filter) ELSE left :
           left \in {ParseAnd(tokens, pos)}})

\* FilterParser.parse
Parse(tokens) ==
    IF Current(tokens, 0).type = "eof" THEN Parsed(0, NullMessageFilter)
    ELSE ParseOr(tokens, 0)

\* parseFilter(input): what parse returned or threw, with the tokens.
ParseFilter(input) ==
    The({The({[ok |-> r.ok, pos |-> r.pos, filter |-> r.filter, error |-> r.error,
               tokens |-> tokens] :
                r \in {IF tokens = <<>> THEN Parsed(0, NullMessageFilter)
                       ELSE Parse(tokens)}}) :
           tokens \in {IF Trim(input) = <<>> THEN <<>> ELSE Tokenize(Trim(input))}})

\* The words and signs filter expressions are written with.
Lexemes ==
    {<<"a">>, <<"F", "r", "o", "m", ":", "b">>, <<"(">>, <<")">>, <<"-">>,
     <<"|">>, <<"&">>}

\* The lexemes of a sequence, separated by single spaces.
RECURSIVE Join(_)
Join(ls) ==
    IF ls = <<>> THEN <<>>
    ELSE IF Len(ls) = 1 THEN ls[1]
    ELSE ls[1] \o <<" ">> \o Join(Tail(ls))

\* Inputs of parseFilter: every sequence of up to MaxLexemes lexemes, and
\* every sequence of up to MaxInner lexemes in parentheses, alone or followed
\* by one more lexeme.
FilterInputs ==
    {Join(ls) : ls \in Strings(Lexemes, MaxLexemes)}
    \cup {Join(<<<<"(">>>> \o ls \o <<<<")">>>> \o tail) :
            ls \in Strings(Lexemes, MaxInner), tail \in Strings(Lexemes, 1)}

InitFilter ==
    /\ IdleProgram
    /\ \E input \in FilterInputs :
         call = [fn |-> "parseFilter", input |-> input, pc |-> "called",
                 result |-> ParseFilter(<<>>), chained |-> <<>>]

\* parseFilter(input) returns a filter or throws.
ParseFilterEnds ==
    /\ call.pc = "called"
    /\ \E result \in {ParseFilter(call.input)} :
         call' = [call EXCEPT !.result = result,
                              !.pc = IF result.ok THEN "returned" ELSE "thrown"]
    /\ UNCHANGED <<pipelineVars, http, client, signal>>

\* The caller chains the filter: f.and(Null), f.or(Null), f.negate().negate().
ChainFilter ==
    /\ call.pc = "returned"
    /\ call' = [call EXCEPT
                  !.chained = <<And(call.result.filter, NullMessageFilter),
                                Or(call.result.filter, NullMessageFilter),
                                Negate(Negate(call.result.filter))>>,
                  !.pc = "chained"]
    /\ UNCHANGED <<pipelineVars, http, client, signal>>

NextFilter == ParseFilterEnds \/ ChainFilter

SpecFilter == InitFilter /\ [][NextFilter]_vars

\* ---------------------------------------------------------------------------
\* Snowflake.parse and toString
\* ---------------------------------------------------------------------------
Digits == <<"0", "1", "2", "3", "4", "5", "6", "7", "8", "9">>

IsDigit(c) == \E d \in 1..Len(Digits) : Digits[d] = c

DigitValue(c) == (CHOOSE d \in 1..Len(Digits) : Digits[d] = c) - 1

\* The number written by a sequence of digits in the given base.
RECURSIVE NumberOf(_, _)
NumberOf(digits, base) ==
    IF digits = <<>> THEN 0
    ELSE NumberOf(SubSeq(digits, 1, Len(digits) - 1), base) * base
         + DigitValue(digits[Len(digits)])

AllDigits(str) == str # <<>> /\ \A k \in 1..Len(str) : IsDigit(str[k])

\* BigInt(str), str trimmed and not empty: decimal digits with an optional
\* sign, or unsigned digits after 0x; anything else is a SyntaxError.
StringToBigInt(str) ==
    CASE AllDigits(str) ->
           [ok |-> TRUE, how |-> "decimal", value |-> NumberOf(str, 10)]
      [] str[1] = "+" /\ AllDigits(Tail(str)) ->
           [ok |-> TRUE, how |-> "decimal", value |-> NumberOf(Tail(str), 10)]
      [] str[1] = "-" /\ AllDigits(Tail(str)) ->
           [ok |-> TRUE, how |-> "decimal", value |-> 0 - NumberOf(Tail(str), 10)]
      [] Len(str) > 2 /\ str[1] = "0" /\ str[2] \in {"x", "X"}
           /\ AllDigits(SubSeq(str, 3, Len(str))) ->
           [ok |-> TRUE, how |-> "hex", value |-> NumberOf(SubSeq(str, 3, Len(str)), 16)]
      [] OTHER -> [ok |-> FALSE, how |-> "none", value |-> 0]

\* BigInt.prototype.toString
RECURSIVE DecimalOf(_)
DecimalOf(n) ==
    IF n < 10 THEN <<Digits[n + 1]>>
    ELSE DecimalOf(n \div 10) \o <<Digits[(n % 10) + 1]>>

\* Snowflake.toString
SnowflakeToString(value) ==
    IF value < 0 THEN <<"-">> \o DecimalOf(0 - value) ELSE DecimalOf(value)

\* Snowflake.fromDate, the time counted from the Discord epoch.
FromDate(ms) == ms * IdsPerMs

\* What new Date(str).getTime() gives for a string that is no number: the
\* engine's date parser decides, NaN (no value) or some time.
DateTimes == {None, Some(0), Some(1)}

\* Snowflake.tryParse: the snowflake, or null.
TryParse(str, time) ==
    IF Trim(str) = <<>> THEN [ok |-> FALSE, how |-> "none", value |-> 0]
    ELSE IF StringToBigInt(Trim(str)).ok THEN StringToBigInt(Trim(str))
    ELSE IF time # None THEN [ok |-> TRUE, how |-> "date", value |-> FromDate(Val(time))]
    ELSE [ok |-> FALSE, how |-> "none", value |-> 0]

SnowflakeChars == {"0", "1", "9", " ", "+", "-", "x"}

SnowflakeInputs == Strings(SnowflakeChars, MaxIdChars)

InitSnowflake ==
    /\ IdleProgram
    /\ \E input \in SnowflakeInputs :
         call = [fn |-> "Snowflake.parse", input |-> input, pc |-> "called",
                 how |-> "none", value |-> 0, text |-> <<>>]

\* Snowflake.parse(input) returns a snowflake or throws 'Invalid snowflake'.
SnowflakeParse ==
    /\ call.pc = "called"
    /\ \E time \in DateTimes :
         LET result == TryParse(call.input, time)
         IN call' = [call EXCEPT !.pc = IF result.ok THEN "returned" ELSE "thrown",
                                 !.how = result.how,
                                 !.value = result.value]
    /\ UNCHANGED <<pipelineVars, http, client, signal>>

\* The caller prints the snowflake: parse(input).toString().
SnowflakePrint ==
    /\ call.pc = "returned"
    /\ call' = [call EXCEPT !.pc = "printed", !.text = SnowflakeToString(call.value)]
    /\ UNCHANGED <<pipelineVars, http, client, signal>>

NextSnowflake == SnowflakeParse \/ SnowflakePrint

SpecSnowflake == InitSnowflake /\ [][NextSnowflake]_vars

\* ---------------------------------------------------------------------------
\* Message.normalizeEmbeds
\* ---------------------------------------------------------------------------
\* The urls that contain '://twitter.com/' or '://x.com/' once in lower case.
EmbedUrls == {"https://twitter.com/a", "https://X.com/a", "https://example.com/a"}

\* Message.isTwitterUrl
IsTwitterUrl(url) ==
    IF url = None THEN FALSE
    ELSE Val(url) \in {"https://twitter.com/a", "https://X.com/a"}

\* description is missing or blank.
IsBlank(description) == description = None \/ Trim(Val(description)) = <<>>

\* Message.isImageOnlyEmbed
IsImageOnlyEmbed(embed, parentUrl) ==
    /\ embed.url = parentUrl
    /\ embed.timestamp = None
    /\ embed.author = None
    /\ embed.color = None
    /\ IsBlank(embed.description)
    /\ Len(embed.fields) = 0
    /\ Len(embed.images) = 1
    /\ embed.footer = None

\* Embed.withImages
WithImages(embed, images) == [embed EXCEPT !.images = images]

\* The inner loop of normalizeEmbeds: the first j at or after the given one
\* whose embed is not an image-only embed of the parent's url.
RECURSIVE TrailingEnd(_, _, _)
TrailingEnd(embeds, j, parentUrl) ==
    IF j <= Len(embeds) /\ IsImageOnlyEmbed(embeds[j], parentUrl)
    THEN TrailingEnd(embeds, j + 1, parentUrl)
    ELSE j

\* The images of embeds i..j-1, in order.
RECURSIVE ImagesOf(_, _, _)
ImagesOf(embeds, i, j) ==
    IF i >= j THEN <<>> ELSE embeds[i].images \o ImagesOf(embeds, i + 1, j)

\* The outer loop of normalizeEmbeds, from embed i on.
RECURSIVE NormalizeFrom(_, _, _)
NormalizeFrom(embeds, i, normalizedEmbeds) ==
    IF i > Len(embeds) THEN normalizedEmbeds
    ELSE LET embed == embeds[i]
             j == TrailingEnd(embeds, i + 1, embed.url)
         IN IF IsTwitterUrl(embed.url) /\ j > i + 1
            THEN NormalizeFrom(embeds, j,
                     Append(normalizedEmbeds, WithImages(embed, ImagesOf(embeds, i, j))))
            ELSE NormalizeFrom(embeds, i + 1, Append(normalizedEmbeds, embed))

\* Message.normalizeEmbeds
NormalizeEmbeds(embeds) ==
    IF Len(embeds) <= 1 THEN embeds ELSE NormalizeFrom(embeds, 1, <<>>)

\* Raw embeds as Embed.parse builds them: with or without a url, with a
\* blank or a written description, with one image or none.
RawEmbeds ==
    [url : {None} \cup {Some(u) : u \in EmbedUrls},
     description : {Some(<<" ">>), Some(<<"d">>)},
     timestamp : {None}, author : {None}, color : {None}, footer : {None},
     fields : {<<>>},
     nImages : 0..1]

\* The k-th embed of a message; its image, if any, is image k.
EmbedAt(raw, k) ==
    [url |-> raw.url, description |-> raw.description, timestamp |-> raw.timestamp,
     author |-> raw.author, color |-> raw.color, footer |-> raw.footer,
     fields |-> raw.fields,
     images |-> IF raw.nImages = 1 THEN <<k>> ELSE <<>>]

EmbedLists ==
    {[k \in 1..Len(raws) |-> EmbedAt(raws[k], k)] : raws \in Strings(RawEmbeds, MaxEmbeds)}

InitNormalize ==
    /\ IdleProgram
    /\ \E embeds \in EmbedLists :
         call = [fn |-> "normalizeEmbeds", input |-> embeds, pc |-> "called",
                 once |-> <<>>, twice |-> <<>>]

\* Message.parse normalises the embeds of the message.
NormalizeOnce ==
    /\ call.pc = "called"
    /\ call' = [call EXCEPT !.pc = "normalized", !.once = NormalizeEmbeds(call.input)]
    /\ UNCHANGED <<pipelineVars, http, client, signal>>

\* The normalised list is normalised again.
NormalizeAgain ==
    /\ call.pc = "normalized"
    /\ call' = [call EXCEPT !.pc = "again", !.twice = NormalizeEmbeds(call.once)]
    /\ UNCHANGED <<pipelineVars, http, client, signal>>

NextNormalize == NormalizeOnce \/ NormalizeAgain

SpecEmbeds == InitNormalize /\ [][NextNormalize]_vars

\* ---------------------------------------------------------------------------
\* Markdown parsing: matchers and matchAll
\* ---------------------------------------------------------------------------
\* StringSegment: indices count from 0.
StringSegment(source, startIndex, length) ==
    [source |-> source, startIndex |-> startIndex, length |-> length]

\* StringSegment.endIndex
EndIndex(segment) == segment.startIndex + segment.length

\* StringSegment.relocate
Relocate(segment, newStartIndex, newLength) ==
    StringSegment(segment.source, newStartIndex, newLength)

\* StringSegment.toString
SegmentToString(segment) ==
    SubSeq(segment.source, segment.startIndex + 1, EndIndex(segment))

\* String.prototype.indexOf, -1 when the pattern does not occur.
IndexOf(str, pattern) ==
    LET found == {k \in 0..(Len(str) - Len(pattern)) :
                    SubSeq(str, k + 1, k + Len(pattern)) = pattern}
    IN IF found = {} THEN -1 ELSE CHOOSE k \in found : \A j \in found : k <= j

\* A matcher found a match (its segment), or null.
NoMatch == <<>>

\* StringMatcher.tryMatch placing the match at its index within the segment's
\* text.
TryMatchStringUnshifted(matcher, segment) ==
    LET index == IndexOf(SegmentToString(segment), matcher.pattern)
    IN IF index = -1 \/ ~matcher.accepts THEN NoMatch
       ELSE <<Relocate(segment, index, Len(matcher.pattern))>>

\* StringMatcher.tryMatch; transform returns null when the matcher does not
\* accept.
TryMatchString(matcher, segment) ==
    LET index == IndexOf(SegmentToString(segment), matcher.pattern)
        matchSegment == Relocate(segment, segment.startIndex + index, Len(matcher.pattern))
    IN IF index = -1 THEN NoMatch
       ELSE IF ~matcher.accepts THEN NoMatch
       ELSE <<matchSegment>>

\* RegExp.prototype.exec for a pattern that is an ordered choice of literals,
\* anchored to the start of a line (^ with the m flag) or not: the leftmost
\* match at or after lastIndex, and there the first alternative that matches.
Exec(regex, str, lastIndex) ==
    LET matchesAt(k, alt) ==
            /\ k + Len(alt) <= Len(str)
            /\ SubSeq(str, k + 1, k + Len(alt)) = alt
            /\ regex.multiline => (k = 0 \/ str[k] = "\n")
        places == {k \in lastIndex..Len(str) :
                     \E a \in 1..Len(regex.alternatives) : matchesAt(k, regex.alternatives[a])}
    IN IF places = {} THEN NoMatch
       ELSE LET k == CHOOSE k \in places : \A j \in places : k <= j
                a == CHOOSE a \in 1..Len(regex.alternatives) :
                       /\ matchesAt(k, regex.alternatives[a])
                       /\ \A b \in 1..(a - 1) : ~matchesAt(k, regex.alternatives[b])
            IN <<[index |-> k, length |-> Len(regex.alternatives[a])]>>

\* RegexMatcher.tryMatch
TryMatchRegex(matcher, segment) ==
    LET match == Exec(matcher, SegmentToString(segment), 0)
        fullStr == SubSeq(segment.source, 1, EndIndex(segment))
        fullMatch == Exec(matcher, fullStr, segment.startIndex)
    IN IF match = NoMatch THEN NoMatch
       ELSE IF /\ matcher.multiline
               /\ \/ fullMatch = NoMatch
                  \/ fullMatch[1].index # segment.startIndex + match[1].index
            THEN NoMatch
       ELSE IF ~matcher.accepts THEN NoMatch
       ELSE <<Relocate(segment, segment.startIndex + match[1].index, match[1].length)>>

\* tryMatch of the string and regex matchers.
TryMatchLeaf(matcher, segment) ==
    IF matcher.kind = "string" THEN TryMatchString(matcher, segment)
    ELSE TryMatchRegex(matcher, segment)

\* The for loop of AggregateMatcher.tryMatch from matcher k on.
RECURSIVE EarliestMatch(_, _, _, _)
EarliestMatch(matchers, k, segment, earliestMatch) ==
    IF k > Len(matchers) THEN earliestMatch
    ELSE LET match == TryMatchLeaf(matchers[k], segment)
             earliest == IF /\ match # NoMatch
                            /\ \/ earliestMatch = NoMatch
                               \/ match[1].startIndex < earliestMatch[1].startIndex
                         THEN match ELSE earliestMatch
         IN IF match = NoMatch THEN EarliestMatch(matchers, k + 1, segment, earliestMatch)
            ELSE IF earliest[1].startIndex = segment.startIndex THEN earliest
            ELSE EarliestMatch(matchers, k + 1, segment, earliest)

\* Matcher.tryMatch
TryMatch(matcher, segment) ==
    IF matcher.kind = "aggregate"
    THEN EarliestMatch(matcher.matchers, 1, segment, NoMatch)
    ELSE TryMatchLeaf(matcher, segment)

StringMatcher(pattern, accepts) ==
    [kind |-> "string", pattern |-> pattern, accepts |-> accepts]

RegexMatcher(alternatives, multiline, accepts) ==
    [kind |-> "regex", alternatives |-> alternatives, multiline |-> multiline,
     accepts |-> accepts]

AggregateMatcher(matchers) == [kind |-> "aggregate", matchers |-> matchers]

\* 'a', 'ab', /b|ab/, /^a/m, and 'b' with a transform that returns null.
LeafMatchers ==
    {StringMatcher(<<"a">>, TRUE), StringMatcher(<<"a", "b">>, TRUE),
     RegexMatcher(<<<<"b">>, <<"a", "b">>>>, FALSE, TRUE),
     RegexMatcher(<<<<"a">>>>, TRUE, TRUE),
     StringMatcher(<<"b">>, FALSE)}

Matchers ==
    LeafMatchers \cup {AggregateMatcher(ms) : ms \in [1..2 -> LeafMatchers]}

SourceChars == {"a", "b", "\n"}

Segments ==
    {StringSegment(source, startIndex, length) :
        source \in Strings(SourceChars, MaxSource),
        startIndex \in 0..MaxSource, length \in 0..MaxSource}

InitMatch ==
    /\ IdleProgram
    /\ \E matcher \in Matchers, segment \in Segments :
         /\ EndIndex(segment) <= Len(segment.source)
         /\ call = [fn |-> "matchAll", matcher |-> matcher, segment |-> segment,
                    currentIndex |-> segment.startIndex, pc |-> "loop",
                    items |-> <<>>]

\* What the matcher finds in the rest of the segment.
MatchInRest ==
    TryMatch(call.matcher,
             Relocate(call.segment, call.currentIndex,
                      EndIndex(call.segment) - call.currentIndex))

Item(segment, kind) ==
    [startIndex |-> segment.startIndex, length |-> segment.length, kind |-> kind]

\* matchAll: the match does not start at the current position, the text before
\* it is yielded as fallback.
YieldFallback ==
    /\ call.pc = "loop"
    /\ call.currentIndex < EndIndex(call.segment)
    /\ MatchInRest # NoMatch
    /\ MatchInRest[1].startIndex > call.currentIndex
    /\ call' = [call EXCEPT
                  !.items = Append(@, Item(Relocate(call.segment, call.currentIndex,
                                    MatchInRest[1].startIndex - call.currentIndex),
                                           "fallback")),
                  !.pc = "match"]
    /\ UNCHANGED <<pipelineVars, http, client, signal>>

\* matchAll: the match is yielded and the current index moves to its end.
YieldMatch ==
    /\ \/ call.pc = "match"
       \/ /\ call.pc = "loop"
          /\ call.currentIndex < EndIndex(call.segment)
          /\ MatchInRest # NoMatch
          /\ MatchInRest[1].startIndex <= call.currentIndex
    /\ call' = [call EXCEPT
                  !.items = Append(@, Item(MatchInRest[1], "match")),
                  !.currentIndex = MatchInRest[1].startIndex + MatchInRest[1].length,
                  !.pc = "loop"]
    /\ UNCHANGED <<pipelineVars, http, client, signal>>

\* matchAll: the loop has ended; what is left of the segment is yielded as
\* fallback and the generator returns.
YieldRest ==
    /\ call.pc = "loop"
    /\ call.currentIndex >= EndIndex(call.segment) \/ MatchInRest = NoMatch
    /\ call' = [call EXCEPT
                  !.items = IF call.currentIndex < EndIndex(call.segment)
                            THEN Append(@, Item(Relocate(call.segment, call.currentIndex,
                                       EndIndex(call.segment) - call.currentIndex),
                                                "fallback"))
                            ELSE @,
                  !.pc = "done"]
    /\ UNCHANGED <<pipelineVars, http, client, signal>>

NextMatch == YieldFallback \/ YieldMatch \/ YieldRest

SpecMatch == InitMatch /\ [][NextMatch]_vars

\* ---------------------------------------------------------------------------
\* Observations on the state
\* ---------------------------------------------------------------------------
\* Ids of the messages handed to the writer of file f (writeMessage calls).
IsMessageCall(c) == c[1] = "message"

FileMessageIds(f) ==
    LET ms == SelectSeq(f.calls, IsMessageCall)
    IN [i \in 1..Len(ms) |-> ms[i][2]]

\* Ids of all messages handed to the sink, in the order it received them.
Handed == sink.handed

\* A writeMessage call of the export threw.
SomeWriteFailed ==
    \E i \in 1..Len(sink.files) :
      \E k \in 1..Len(sink.files[i].calls) : sink.files[i].calls[k][1] = "failed"

\* Look-ups in flight that processBatch started.
BatchLookups == {t \in inflight : t[2] = 0}

\* The ids of the channel's messages inside the requested range.
MessagesInRange ==
    {i \in ChannelMessageIds(env.nMsgs) :
        /\ req.after # None => i > Val(req.after)
        /\ req.before # None => i < Val(req.before)}

\* ---------------------------------------------------------------------------
\* Claims
\* ---------------------------------------------------------------------------

\* C1: during one exportChannel call the messages reach the writer in
\* strictly ascending id order, across page and batch boundaries: each
\* message handed to the sink has a greater id than the one handed before it
\* (hence than every earlier one).
C1_AscendingOrder ==
    \A i \in 1..(Len(Handed) - 1) : Handed[i] < Handed[i + 1]

\* An export that handed over more than a page of messages (three batches).
C1_Witness ==
    /\ pc = "done"
    /\ Len(Handed) > PAGINATION_LIMIT

\* C2: whenever a message of a batch is passed to the writer, no member
\* look-up started for the batch by processBatch is still in flight.
C2_LookupsBeforeWrite ==
    [][Len(sink'.handed) > Len(sink.handed) => BatchLookups = {}]_vars

\* A message has been written after the look-ups of more users than one
\* group holds have completed.
C2_Witness ==
    /\ env.nUsers > PARALLEL_LIMIT
    /\ Len(Handed) > 0
    /\ \A u \in 1..env.nUsers : membersById[u] # "absent"

\* C3: a batch holds at most 50 messages and at every moment at most 10
\* member look-ups are in flight.
C3_BoundedBatchAndLookups ==
    /\ Len(messageBatch) <= 50
    /\ Cardinality(inflight) <= 10

\* C4: when a message is written and the partition limit is reached for the
\* current writer, the sink performs, in this order, postamble and close of
\* the current writer, the increment of the partition index, the opening of
\* a new writer at the base path with " [part N]" (N = index + 1) before the
\* extension, its preamble, and only then hands the message to the new
\* writer; partition 0 has the base path unchanged.
C4_RolledOver ==
    LET old == Val(sink.writer).file
        new == old + 1
        index == sink.partitionIndex + 1
        ops == sink'.ops
        base == OutputFilePath(req.format)
    IN /\ Len(ops) >= 6
       /\ SubSeq(ops, 1, 6) = << <<"postamble", old>>, <<"close", old>>,
                                 <<"increment", index>>, <<"open", new>>,
                                 <<"preamble", new>>, <<"message", new>> >>
       /\ sink'.partitionIndex = index
       /\ Len(sink'.files) = new
       /\ sink'.files[old].closed
       /\ sink'.files[old].calls[Len(sink'.files[old].calls)][1] = "postamble"
       /\ Len(FileMessageIds(sink'.files[old])) = Len(FileMessageIds(sink.files[old]))
       /\ sink'.files[new].path = <<base[1], base[2], " [part ", ToString(index + 1),
                                    "]", base[3]>>
       /\ sink'.files[new].calls[1][1] = "preamble"
       /\ sink'.files[new].calls[2][1] = "message"
       /\ Val(sink'.writer).file = new

C4_Rollover ==
    /\ [](Len(sink.files) > 0 => sink.files[1].path = OutputFilePath(req.format))
    /\ [][(/\ Len(sink'.handed) > Len(sink.handed)
           /\ sink.writer # None
           /\ IsReached(req.partitionLimit, Val(sink.writer).messagesWritten,
                        Val(sink.writer).bytesWritten))
          => C4_RolledOver]_vars

\* The sink has just rolled over into its third partition or a later one.
C4_Witness ==
    /\ Len(sink.files) >= 3
    /\ Len(sink.ops) >= 6
    /\ sink.ops[1][1] = "postamble"
    /\ sink.ops[6][1] = "message"

\* The content written for a file before its k-th message: the header and
\* the representations of the k - 1 messages before it.
ContentBefore(f, k) ==
    (IF req.format = "Json" THEN JsonPreambleDataBytes ELSE PreambleBytes(req.format))
    + SeqSum([j \in 1..(k - 1) |-> MessageBytes(FileMessageIds(f)[j])])

\* C5: for every format and every non-null partition limit, no partition
\* file receives a further message once what was written for it has reached
\* the limit (so no file exceeds the limit by more than one message).
C5_LimitNeverExceeded ==
    \A i \in 1..Len(sink.files) :
      \A k \in 2..Len(FileMessageIds(sink.files[i])) :
        CASE req.partitionLimit.kind = "null" -> TRUE
          [] req.partitionLimit.kind = "count" -> k - 1 < req.partitionLimit.n
          [] req.partitionLimit.kind = "size" ->
               ContentBefore(sink.files[i], k) < req.partitionLimit.n

\* C6: with a message-count limit n, an export that wrote k > 0 messages
\* (no write failed) produced exactly ceil(k/n) files; every file but the
\* last holds n messages, the last the remainder, and the second is named
\* with " [part 2]".
C6_CountPartitions ==
    LET n == req.partitionLimit.n
        k == Len(Handed)
        nFiles == Len(sink.files)
        base == OutputFilePath(req.format)
    IN (/\ pc = "done"
        /\ req.partitionLimit.kind = "count"
        /\ k > 0
        /\ ~SomeWriteFailed)
       => /\ nFiles = (k + n - 1) \div n
          /\ \A i \in 1..(nFiles - 1) : Len(FileMessageIds(sink.files[i])) = n
          /\ Len(FileMessageIds(sink.files[nFiles])) = k - n * (nFiles - 1)
          /\ nFiles >= 2 =>
               sink.files[2].path = <<base[1], base[2], " [part ", "2", "]", base[3]>>

\* Count(3) and four messages: two files of 3 and 1 messages.
C6_Witness ==
    /\ pc = "done"
    /\ req.partitionLimit = [kind |-> "count", n |-> 3]
    /\ Len(Handed) = 4
    /\ ~SomeWriteFailed
    /\ Len(sink.files) = 2

C8_EmptyFile ==
    (/\ pc = "done"
     /\ error \in {None, Some(ChannelEmptyError)}
     /\ Handed = <<>>)
    => /\ Len(sink.files) = 1
       /\ sink.files[1].calls = << <<"preamble", 0>>, <<"postamble", 0>> >>
       /\ sink.files[1].closed
       /\ sink.files[1].path = OutputFilePath(req.format)
       /\ sink.files[1].bytes =
            IF req.format = "Json"
            THEN JsonPreambleDataBytes + PostambleBytes(req.format)
            ELSE PreambleBytes(req.format) + PostambleBytes(req.format)

\* The filter rejected every message of a non-empty channel.
C8_Witness ==
    /\ pc = "done"
    /\ error = None
    /\ env.nMsgs > 0
    /\ req.after = None /\ req.before = None
    /\ req.messageFilter = [kind |-> "from", value |-> 0]
    /\ Len(sink.files) = 1

\* The outcomes the retry policy names: a transport error, or a response
\* with status 408, 429 or 500..599.
RetryableByPolicy(o) ==
    \/ IsTransportError(o)
    \/ StatusOf(o) \in {408, 429}
    \/ (StatusOf(o) >= 500 /\ StatusOf(o) <= 599)

\* C9: for every logical API request, at most 5 HTTP attempts are made
\* before the request returns a response or fails.
C9_AtMostFiveAttempts ==
    http.httpAttempts <= MAX_RETRIES

\* C10: an attempt is followed by a retry if and only if it ended in a
\* transport error or its response status is 408, 429 or in 500..599 (as long
\* as attempts remain); a response with any other status is returned to the
\* caller without retry.
C10_RetryIffRetryable ==
    /\ http.retried # None => RetryableByPolicy(Val(http.retried))
    /\ http.pc = "returned" => ~RetryableByPolicy(http.last[1])
    /\ http.pc = "failed" =>
         /\ RetryableByPolicy(http.last[1])
         /\ http.attempt = MAX_RETRIES

\* C11: a request whose attempts are all used up by 5xx responses or by
\* transport errors surfaces as a domain error (a DiscordChatExporterError,
\* the errors that carry isFatal) with isFatal = true.
C11_ExhaustedIsFatalDomainError ==
    http.pc = "failed" =>
        /\ GetJsonResponseError(http).isDomain
        /\ GetJsonResponseError(http).isFatal

\* The sleep the rate-limit advisory asks for: min(ResetAfter + 1 s, 60 s),
\* in milliseconds.
AdvisedSleepMs(resetAfter) ==
    IF (resetAfter + 1) * 1000 <= 60000 THEN (resetAfter + 1) * 1000 ELSE 60000

\* C12: after any response whose X-RateLimit-Remaining is <= 0 and whose
\* X-RateLimit-Reset-After is present, the client has slept
\* min(ResetAfter + 1 s, 60 s) before it issues its next request when the
\* preference bit of the token kind in use is set, and has not slept for the
\* budget when that bit is clear.
C12_RateLimitSleep ==
    (/\ http.last # None
     /\ ~IsTransportError(http.last[1])
     /\ http.headers[1] # None
     /\ http.headers[1][1] <= 0
     /\ http.headers[2] # None)
    => http.sleptMs =
         IF \/ http.tokenKind = "User" /\ http.preference \in {1, 3}
            \/ http.tokenKind = "Bot" /\ http.preference \in {2, 3}
         THEN AdvisedSleepMs(http.headers[2][1])
         ELSE 0

\* C13: for one client the probe sequence against GET users/@me runs at most
\* once, also when the first authenticated requests are issued concurrently
\* (stated for a valid token and probes that are all answered), and every
\* request that follows the discovery uses the discovered kind.
C13_TokenKindDiscoveredOnce ==
    /\ (client.token # "invalid" /\ ~client.probeThrew) => client.probeRuns <= 1
    /\ \A c \in 1..MaxCallers :
         client.calls[c].pc = "request" => client.calls[c].kind = client.token

C15_OneRequestPerUser ==
    \A u \in DOMAIN context.requests : context.requests[u] <= 1

\* C16: at every point of an export, the roles and the colour the context
\* returns for a user are those computed from the current member and role
\* caches: the member's roles by position descending, and the first non-null
\* colour in that order.
C16_DerivedMatchCaches ==
    \A u \in DOMAIN membersById :
        /\ context.userRolesCache[u] # None =>
             Val(context.userRolesCache[u]) = RolesOf(membersById, u)
        /\ context.userColorCache[u] # None =>
             Val(context.userColorCache[u]) = ColorOf(RolesOf(membersById, u))

\* The users of a sequence.
Range(s) == {s[i] : i \in 1..Len(s)}

C18_ErrorsWrapped ==
    (SomeWriteFailed /\ error # None) =>
        LET e == Val(error)
        IN /\ e.isDomain
           /\ e.context = Some(messageBatch[widx].id)
           /\ e.cause # None
           /\ Val(e.cause).isFatal = e.isFatal

\* C19: once the caller has signalled cancellation, no further page of
\* messages is requested and no further message is handed to the writer.
C19_SignalStopsExport ==
    [][signal => /\ gen'.requests = gen.requests
                 /\ sink'.handed = sink.handed]_vars

\* The HTML writer's current group.
MessageGroup(st) == IF st.writer = None THEN <<>> ELSE Val(st.writer).buffer

\* A message was handed to the HTML writer while its group held messages,
\* and joined that group.
Joined(st, stNext) ==
    MessageGroup(stNext) =
        Append(MessageGroup(st), MessageGroup(stNext)[Len(MessageGroup(stNext))])

C28_TurnConsumes ==
    [][call'.iterations > call.iterations => call'.i > call.i]_vars

\* C21: for every filter f and every message m, f.and(Null) matches m iff f
\* matches m, f.or(Null) matches m, and f.negate().negate() matches m iff f
\* matches m.
C21_FilterCombinators ==
    call.pc = "chained" =>
        \A m \in FilterMessages :
            /\ IsMatch(call.chained[1], m) = IsMatch(call.result.filter, m)
            /\ IsMatch(call.chained[2], m)
            /\ IsMatch(call.chained[3], m) = IsMatch(call.result.filter, m)

\* A chained filter that matches some of the messages and not the others.
C21_Witness ==
    /\ call.pc = "chained"
    /\ \E m \in FilterMessages : IsMatch(call.result.filter, m)
    /\ \E m \in FilterMessages : ~IsMatch(call.result.filter, m)

\* The predicate a token sequence denotes by the grammar
\*   or-expr := and-expr ('or' and-expr)*
\*   and-expr := unary (['and'] unary)*
\*   unary := ['not'] primary
\*   primary := '(' or-expr ')' | operator ':' value | text
\* found by splitting the sequence at its top-level operators.
Depth(toks, k) ==
    Cardinality({j \in 1..(k - 1) : toks[j].type = "lparen"})
    - Cardinality({j \in 1..(k - 1) : toks[j].type = "rparen"})

TopLevel(toks, type) ==
    {k \in 1..Len(toks) : toks[k].type = type /\ Depth(toks, k) = 0}

Meaning(ok, value) == [ok |-> ok, value |-> ok /\ value]

PrimaryLen(toks) ==
    IF toks = <<>> THEN 0
    ELSE CASE toks[1].type \in {"text", "quoted"} -> 1
           [] toks[1].type = "operator" ->
                IF /\ Len(toks) >= 3
                   /\ toks[2].type = "colon"
                   /\ toks[3].type \in {"text", "quoted"}
                THEN 3 ELSE 0
           [] toks[1].type = "lparen" ->
                LET closing == {k \in 2..Len(toks) :
                                  toks[k].type = "rparen" /\ Depth(toks, k) = 1}
                IN IF closing = {} THEN 0
                   ELSE CHOOSE k \in closing : \A j \in closing : k <= j
           [] OTHER -> 0

UnaryLen(toks) ==
    IF toks # <<>> /\ toks[1].type = "not"
    THEN IF PrimaryLen(Tail(toks)) = 0 THEN 0 ELSE 1 + PrimaryLen(Tail(toks))
    ELSE PrimaryLen(toks)

RECURSIVE OrMeans(_, _), AndMeans(_, _), PrimaryMeans(_, _)

PrimaryMeans(toks, m) ==
    CASE toks[1].type = "lparen" -> OrMeans(SubSeq(toks, 2, Len(toks) - 1), m)
      [] toks[1].type = "operator" ->
           LET made == CreateOperatorFilter(0, toks[1].value, toks[3].value)
           IN Meaning(made.ok, IsMatch(made.filter, m))
      [] OTHER -> Meaning(TRUE, Includes(ToLowerCase(m.content), ToLowerCase(toks[1].value)))

UnaryMeans(toks, m) ==
    IF toks[1].type = "not"
    THEN LET inner == PrimaryMeans(Tail(toks), m) IN Meaning(inner.ok, ~inner.value)
    ELSE PrimaryMeans(toks, m)

AndMeans(toks, m) ==
    LET n == UnaryLen(toks)
        rest == SubSeq(toks, n + 1, Len(toks))
    IN IF n = 0 THEN Meaning(FALSE, FALSE)
       ELSE IF rest = <<>> THEN UnaryMeans(toks, m)
       ELSE LET first == UnaryMeans(SubSeq(toks, 1, n), m)
                others == AndMeans(IF rest[1].type = "and" THEN Tail(rest) ELSE rest, m)
            IN Meaning(first.ok /\ others.ok, first.value /\ others.value)

OrMeans(toks, m) ==
    LET ors == TopLevel(toks, "or")
    IN IF ors = {} THEN AndMeans(toks, m)
       ELSE LET k == CHOOSE k \in ors : \A j \in ors : j <= k
                left == OrMeans(SubSeq(toks, 1, k - 1), m)
                right == AndMeans(SubSeq(toks, k + 1, Len(toks)), m)
            IN Meaning(left.ok /\ right.ok, left.value \/ right.value)

\* What the tokens of an expression (eof left out) denote on message m; the
\* empty expression matches everything.
Means(tokens, m) ==
    IF Len(tokens) <= 1 THEN Meaning(TRUE, TRUE)
    ELSE OrMeans(SubSeq(tokens, 1, Len(tokens) - 1), m)

\* C22: on an expression of the grammar, parseFilter returns the filter the
\* grammar's precedence gives: negation applies to the single primary that
\* follows it, and (explicit or by adjacency) binds tighter than or, and
\* parentheses override both.
C22_Precedence ==
    call.pc \in {"returned", "thrown"} =>
        \A m \in FilterMessages :
            Means(call.result.tokens, m).ok =>
                /\ call.result.ok
                /\ IsMatch(call.result.filter, m) = Means(call.result.tokens, m).value

\* 'a from:b | from:b' is (a and from:b) or from:b: it matches a message by b
\* without an a.  '( a | from:b ) a' is (a or from:b) and a.
C22_Witness ==
    /\ call.pc = "returned"
    /\ \/ /\ call.input = Join(<<<<"a">>, <<"F", "r", "o", "m", ":", "b">>, <<"|">>,
                                 <<"F", "r", "o", "m", ":", "b">>>>)
          /\ \E m \in FilterMessages : m.content = <<>> /\ IsMatch(call.result.filter, m)
       \/ /\ call.input = Join(<<<<"(">>, <<"a">>, <<"|">>,
                                 <<"F", "r", "o", "m", ":", "b">>, <<")">>, <<"a">>>>)
          /\ \E m \in FilterMessages :
               /\ m.content = <<>> /\ m.author.name = <<"B">>
               /\ ~IsMatch(call.result.filter, m)

\* C30: when parseFilter returns a filter, every token before eof has been
\* consumed into it (an expression with tokens left over raises an error).
C30_AllTokensConsumed ==
    call.pc \in {"returned", "chained"} =>
        Current(call.result.tokens, call.result.pos).type = "eof"

\* C23: for every string that Snowflake.parse accepts as a decimal number,
\* parse(s).toString() is that string.
C23_RoundTrip ==
    (call.pc = "printed" /\ call.how = "decimal") => call.text = call.input

\* C24: normalising a normalised embed list yields the same list.
C24_Idempotent ==
    call.pc = "again" => call.twice = call.once

\* C25: in a normalised embed list no two consecutive embeds share a url of
\* twitter.com or x.com.
C25_NoConsecutiveTwitter ==
    call.pc \in {"normalized", "again"} =>
        \A k \in 1..(Len(call.once) - 1) :
            ~(IsTwitterUrl(call.once[k].url) /\ call.once[k + 1].url = call.once[k].url)

\* C26: the items matchAll yields are contiguous, non-empty and in order: the
\* first starts where the segment starts, each next one starts where the
\* previous one ends, none reaches past the end of the segment (so they are
\* finitely many), and when the generator returns they end where the segment
\* ends.
C26_ItemsTileSegment ==
    call.fn = "matchAll" =>
        /\ \A k \in 1..Len(call.items) :
             /\ call.items[k].length > 0
             /\ call.items[k].startIndex =
                  IF k = 1 THEN call.segment.startIndex
                  ELSE call.items[k - 1].startIndex + call.items[k - 1].length
             /\ call.items[k].startIndex + call.items[k].length <= EndIndex(call.segment)
        /\ call.pc = "done" =>
             IF call.items = <<>> THEN call.segment.length = 0
             ELSE call.items[Len(call.items)].startIndex
                  + call.items[Len(call.items)].length = EndIndex(call.segment)

\* matchAll has returned after a fallback, a match and a fallback on a segment
\* that is a proper part of its source.
C26_Witness ==
    /\ call.pc = "done"
    /\ call.segment.startIndex > 0
    /\ Len(call.items) >= 3
    /\ \E k \in 1..(Len(call.items) - 2) :
         /\ call.items[k].kind = "fallback"
         /\ call.items[k + 1].kind = "match"
         /\ call.items[k + 2].kind = "fallback"

\* The sink is finalised: no writer is left, and every file that was opened
\* has had one call of writePostamble and one call of dispose.
Finalised(s) ==
    /\ s.writer = None
    /\ Len(s.files) >= 1
    /\ \A f \in 1..Len(s.files) :
         /\ s.files[f].closed
         /\ s.files[f].closes = 1
         /\ Cardinality({k \in 1..Len(s.files[f].calls) :
                           s.files[f].calls[k][1] = "postamble"}) = 1

C29_YieldedInRange ==
    \A k \in 1..Len(messageBatch) :
        /\ req.after # None => messageBatch[k].id > Val(req.after)
        /\ req.before # None => messageBatch[k].id < Val(req.before)

====
